---------------------------- MODULE Spec2Model ----------------------------
(***************************************************************************)
(* The README-embeddings pipeline of OpenCloudHub/data-registry:           *)
(*   src/pipelines/opencloudhub-readmes-embeddings/scripts/process.py      *)
(*   src/pipelines/opencloudhub-readmes-embeddings/scripts/process copy.py *)
(*   src/pipelines/opencloudhub-readmes-embeddings/run_pipeline.py         *)
(*                                                                         *)
(* Six specifications share this module.                                   *)
(*   SpecChunker  Chunker.__call__ applied to documents drawn from a       *)
(*                bounded set of texts, under every configuration          *)
(*                0 <= chunk_overlap < chunk_size <= MaxChunkSize.         *)
(*   Spec         main() of process.py against the destination table:      *)
(*                the configuration checks, initialize_table, the Chunker  *)
(*                and Embedder stages, then PGVectorWriter batches run by  *)
(*                concurrent writer workers.                               *)
(*   SpecTwoRuns  Spec with the initialize_table of a second run going on  *)
(*                against the same table.                                  *)
(*   SpecCopy     the same as Spec for the earlier revision, process       *)
(*                copy.py.                                                 *)
(*   SpecWriter   one PGVectorWriter object: its serialization, its        *)
(*                _get_connection and the connection of its calls.         *)
(*   SpecRunner   main() of run_pipeline.py around "dvc repro".            *)
(*                                                                         *)
(* A text is a sequence of characters; a character is a record             *)
(* [c |-> the character, p |-> its position in the document], p = 0 for a  *)
(* character the header splitter inserts itself.  String operations read   *)
(* only the c fields; the p fields travel with the characters so that      *)
(* coverage of the document by its chunks can be stated.                   *)
(***************************************************************************)
EXTENDS Integers, Sequences, FiniteSets, TLC

VARIABLES
    \* Chunker: the configuration of the instance (size_splitter._chunk_size,
    \* size_splitter._chunk_overlap)
    chunk_size, chunk_overlap,
    \* the row [path, text] of the latest Chunker call, and what it returned
    row, chunks,
    \* history: every chunk emitted so far, as [call, doc_id, chunk_id,
    \* chunk_index], and the number of Chunker calls made
    emitted, calls,
    \* the number of uuid.uuid4() values drawn so far
    uuid_ctr

chunkerVars == << chunk_size, chunk_overlap, row, chunks, emitted, calls, uuid_ctr >>

VARIABLES
    \* the destination store: the table as committed (whether it exists, its
    \* rows, its indexes), whether the vector extension is installed, and
    \* the last value of the table's id sequence (SERIAL, process copy.py)
    tbl, ext_vector, serial,
    \* main(): where it stands, the number of runs started, the documents
    \* of the corpus, the policy the run is configured with
    pc, runs, corpus, init_policy,
    \* the required configuration value the environment of the run lacks
    \* ("none" if it is complete), the length of the vectors the embedding
    \* model returns
    missing, model_dim,
    \* initialize_table: the table and the extension as its open transaction
    \* sees them; the table as committed when it connected, kept until
    \* main() goes on after the call
    init_txn, tbl_before,
    \* the dataset given to the writer stage, the batches not yet handed to
    \* a writer, the batches whose call returned
    dataset, todo, done,
    \* the number of chunks of the dataset the Embedder stage has returned
    embedded,
    \* a writer worker: where its call stands, its batch, the number of
    \* inserts executed, the rows its open transaction holds, and the
    \* connection it has open ("none" if it has none, else the status of
    \* the transaction): the connection of the call in process.py, the one
    \* the instance keeps (_conn) in process copy.py
    w_pc, w_batch, w_i, w_pend, w_conn,
    \* history: commits per batch in this run, the calls cut short (batch,
    \* inserts executed, size), the errors raised, the worker crashes
    commits, interrupted, raised, crashes,
    \* history: the writer calls of process.py that raised because the
    \* connection was lost (batch, and the attempt of the call that raised)
    surfaced

VARIABLES
    \* one PGVectorWriter object: the revision of its class ("process" for
    \* process.py, "copy" for process copy.py), the arguments it was
    \* constructed with, its __dict__, the last state __getstate__ returned
    revision, ctor_args, self_dict, pickled,
    \* the connections opened so far, each with its status, whether the
    \* object at hand was restored by __setstate__, the number of its calls
    \* since, and the outcome of the last operation on it
    conns, restored, batches_since, outcome

VARIABLES
    \* run_pipeline.main(): where it stands, whether the environment
    \* overrides a parameter (updates is not empty), params.py (as
    \* committed, or with the overrides written into it), dvc.lock (None
    \* while the file is absent), the hash taken before DVC runs,
    \* result.returncode, the markers printed, the exit status
    rp_pc, updates, params_file, lock_file, hash_before, returncode,
    markers, exit_status

storeVars == << tbl, ext_vector, serial >>

mainVars ==
    << pc, runs, corpus, init_policy, missing, model_dim, init_txn, tbl_before >>

stageVars == << dataset, embedded, todo, done >>

writerVars == << w_pc, w_batch, w_i, w_pend, w_conn >>

historyVars == << commits, interrupted, surfaced, raised, crashes >>

pipelineVars == << storeVars, mainVars, stageVars, writerVars, historyVars >>

instanceVars ==
    << revision, ctor_args, self_dict, pickled, conns, restored,
       batches_since, outcome >>

runnerVars ==
    << rp_pc, updates, params_file, lock_file, hash_before, returncode,
       markers, exit_status >>

vars == << chunkerVars, pipelineVars, instanceVars, runnerVars >>

-----------------------------------------------------------------------------
(* Bounds of the model. *)

\* longest document text given to the Chunker
MaxLen == 4
\* largest chunk_size configured
MaxChunkSize == 2
\* Chunker calls in one behaviour of SpecChunker
MaxCalls == 2

\* the characters documents are written in: a letter, the two whitespace
\* characters the splitters look for, and the heading mark
Alphabet == {"a", " ", "\n", "#"}

Whitespace == {" ", "\n"}

-----------------------------------------------------------------------------
(* Strings. *)

Str(t) == [i \in 1..Len(t) |-> t[i].c]

Slice(t, a, b) == IF a > b THEN << >> ELSE SubSeq(t, a, b)

Synthetic(c) == [c |-> c, p |-> 0]

\* str.startswith(sep) at offset i (1-based): t[i..] begins with the string sep
StartsWithAt(t, i, sep) ==
    /\ i + Len(sep) - 1 <= Len(t)
    /\ \A k \in 1..Len(sep) : t[i + k - 1].c = sep[k]

\* first index >= i at which sep occurs in t, 0 if none (re.search / re.split)
RECURSIVE FindFrom(_, _, _)
FindFrom(t, i, sep) ==
    IF i + Len(sep) - 1 > Len(t) THEN 0
    ELSE IF StartsWithAt(t, i, sep) THEN i
    ELSE FindFrom(t, i + 1, sep)

\* str.strip(): leading and trailing whitespace removed
RECURSIVE LStrip(_)
LStrip(t) ==
    IF t /= << >> /\ Head(t).c \in Whitespace THEN LStrip(Tail(t)) ELSE t

RECURSIVE RStrip(_)
RStrip(t) ==
    IF t /= << >> /\ t[Len(t)].c \in Whitespace
    THEN RStrip(SubSeq(t, 1, Len(t) - 1)) ELSE t

Strip(t) == RStrip(LStrip(t))

\* "".join(pieces)
RECURSIVE Concat(_)
Concat(ps) == IF ps = << >> THEN << >> ELSE Head(ps) \o Concat(Tail(ps))

RECURSIVE SumLen(_)
SumLen(ps) == IF ps = << >> THEN 0 ELSE Len(Head(ps)) + SumLen(Tail(ps))

-----------------------------------------------------------------------------
(* RecursiveCharacterTextSplitter(chunk_size = S, chunk_overlap = O,       *)
(* length_function = len), as constructed in Chunker.__init__ and called   *)
(* in Chunker.__call__.  The splitter is the langchain_text_splitters      *)
(* class; its defaults apply: separators ["\n\n", "\n", " ", ""],          *)
(* keep_separator = True (the separator starts the piece that follows it), *)
(* strip_whitespace = True.                                                *)

Separators == << <<"\n", "\n">>, <<"\n">>, <<" ">>, << >> >>

\* the pieces from the separator occurrence at index j onwards, each piece
\* starting with its separator
RECURSIVE SplitFrom(_, _, _)
SplitFrom(t, j, sep) ==
    LET nxt == FindFrom(t, j + Len(sep), sep)
    IN  IF nxt = 0 THEN << Slice(t, j, Len(t)) >>
        ELSE << Slice(t, j, nxt - 1) >> \o SplitFrom(t, nxt, sep)

\* _split_text_with_regex(text, separator, keep_separator = True): the text
\* cut before every occurrence of the separator, empty pieces dropped; with
\* the empty separator, list(text)
SplitKeep(t, sep) ==
    LET pieces ==
            IF sep = << >> THEN [i \in 1..Len(t) |-> << t[i] >>]
            ELSE LET first == FindFrom(t, 1, sep)
                 IN  IF first = 0 THEN << t >>
                     ELSE << Slice(t, 1, first - 1) >> \o SplitFrom(t, first, sep)
    IN  SelectSeq(pieces, LAMBDA x : x /= << >>)

\* _join_docs(docs, ""): the pieces joined and stripped; None (here << >>, as
\* a sequence of zero or one texts) when nothing is left
JoinDocs(cur) ==
    LET text == Strip(Concat(cur))
    IN  IF text = << >> THEN << >> ELSE << text >>

\* the while loop of _merge_splits: pieces leave the front of the window
\* while it holds more than chunk_overlap characters, or while the next
\* piece still does not fit
RECURSIVE PopFront(_, _, _, _)
PopFront(cur, len, S, O) ==
    LET total == SumLen(cur)
    IN  IF total > O \/ (total + len > S /\ total > 0)
        THEN PopFront(Tail(cur), len, S, O)
        ELSE cur

\* _merge_splits(splits, ""): consecutive pieces packed into windows of at
\* most chunk_size characters; st is [docs, cur]
RECURSIVE MergeLoop(_, _, _, _)
MergeLoop(splits, st, S, O) ==
    IF splits = << >> THEN st.docs \o JoinDocs(st.cur)
    ELSE LET d == Head(splits)
             flush == SumLen(st.cur) + Len(d) > S /\ st.cur /= << >>
             docs == IF flush THEN st.docs \o JoinDocs(st.cur) ELSE st.docs
             cur == IF flush THEN PopFront(st.cur, Len(d), S, O) ELSE st.cur
         IN  MergeLoop(Tail(splits), [docs |-> docs, cur |-> Append(cur, d)], S, O)

MergeSplits(splits, S, O) ==
    MergeLoop(splits, [docs |-> << >>, cur |-> << >>], S, O)

\* the first separator, from position k of the list on, that occurs in the
\* text; the empty separator always does
RECURSIVE ChooseSeparator(_, _)
ChooseSeparator(t, k) ==
    IF Separators[k] = << >> \/ FindFrom(t, 1, Separators[k]) /= 0 THEN k
    ELSE ChooseSeparator(t, k + 1)

\* RecursiveCharacterTextSplitter._split_text(text, separators[k:]); the
\* loop over the pieces carries [final, good]
RECURSIVE SplitText(_, _, _, _)
RECURSIVE SplitLoop(_, _, _, _, _)
SplitLoop(splits, st, i, S, O) ==
    IF splits = << >>
    THEN IF st.good /= << >> THEN st.final \o MergeSplits(st.good, S, O)
         ELSE st.final
    ELSE LET s == Head(splits)
             flushed == IF st.good /= << >>
                        THEN st.final \o MergeSplits(st.good, S, O)
                        ELSE st.final
             deeper == IF Separators[i] = << >> THEN << s >>
                       ELSE SplitText(s, i + 1, S, O)
         IN  IF Len(s) < S
             THEN SplitLoop(Tail(splits),
                            [final |-> st.final, good |-> Append(st.good, s)],
                            i, S, O)
             ELSE SplitLoop(Tail(splits),
                            [final |-> flushed \o deeper, good |-> << >>],
                            i, S, O)

SplitText(t, k, S, O) ==
    LET i == ChooseSeparator(t, k)
    IN  SplitLoop(SplitKeep(t, Separators[i]),
                  [final |-> << >>, good |-> << >>], i, S, O)

\* self.size_splitter.split_text(section_text)
SizeSplit(t, S, O) == SplitText(t, 1, S, O)

-----------------------------------------------------------------------------
(* MarkdownHeaderTextSplitter(headers_to_split_on = [("#", "h1"),          *)
(* ("##", "h2"), ("###", "h3")], strip_headers = False), as constructed in *)
(* Chunker.__init__.  The Alphabet holds no code-fence character, so the   *)
(* splitter is never inside a code block, and every character of the       *)
(* Alphabet is printable.                                                  *)

\* the heading levels and their names, the longest mark first (the
\* constructor sorts headers_to_split_on by the length of the mark)
HeaderLevels == << 3, 2, 1 >>

HeaderMark(lv) == [k \in 1..lv |-> "#"]

HeaderName(lv) == CASE lv = 1 -> "h1" [] lv = 2 -> "h2" [] lv = 3 -> "h3"

HeaderNames == {"h1", "h2", "h3"}

\* a metadata dict: which of the keys h1, h2, h3 it holds, and their values
NoHeader == [set |-> FALSE, data |-> << >>]

EmptyMetadata == [n \in HeaderNames |-> NoHeader]

MetadataLen(m) == Cardinality({n \in HeaderNames : m[n].set})

\* text.split("\n"): every line with the newline character that ends it
RECURSIVE SplitLines(_)
SplitLines(t) ==
    LET j == FindFrom(t, 1, <<"\n">>)
    IN  IF j = 0 THEN << [txt |-> t, nl |-> << >>] >>
        ELSE << [txt |-> Slice(t, 1, j - 1), nl |-> << t[j] >>] >>
             \o SplitLines(Slice(t, j + 1, Len(t)))

\* "\n".join(current_content)
RECURSIVE JoinLines(_)
JoinLines(cur) ==
    IF Len(cur) = 1 THEN cur[1].txt
    ELSE cur[1].txt
         \o (IF cur[1].nl = << >> THEN << Synthetic("\n") >> ELSE cur[1].nl)
         \o JoinLines(Tail(cur))

\* the level of the heading a stripped line is, 0 if it is none: the line
\* starts with the mark, and the mark is the whole line or a space follows
IsHeader(sl, lv) ==
    /\ StartsWithAt(sl, 1, HeaderMark(lv))
    /\ (Len(sl) = lv \/ sl[lv + 1].c = " ")

HeaderLevel(sl) ==
    IF IsHeader(sl, HeaderLevels[1]) THEN HeaderLevels[1]
    ELSE IF IsHeader(sl, HeaderLevels[2]) THEN HeaderLevels[2]
    ELSE IF IsHeader(sl, HeaderLevels[3]) THEN HeaderLevels[3]
    ELSE 0

\* headers of the same or a deeper level leave the stack, and their keys
\* leave the metadata; hm is [stack, meta]
RECURSIVE PopHeaders(_, _)
PopHeaders(hm, lv) ==
    IF hm.stack /= << >> /\ hm.stack[Len(hm.stack)].level >= lv
    THEN PopHeaders([stack |-> SubSeq(hm.stack, 1, Len(hm.stack) - 1),
                     meta |-> [hm.meta EXCEPT
                                 ![hm.stack[Len(hm.stack)].name] = NoHeader]],
                    lv)
    ELSE hm

\* one line of the loop of MarkdownHeaderTextSplitter.split_text; st is
\* [lwm, cur, cur_meta, stack, init_meta]
HeaderStep(st, line) ==
    LET sl == Strip(line.txt)
        lv == HeaderLevel(sl)
        entry == [txt |-> sl, nl |-> line.nl]
        flushed == IF st.cur /= << >>
                   THEN Append(st.lwm, [content |-> JoinLines(st.cur),
                                        metadata |-> st.cur_meta])
                   ELSE st.lwm
    IN  IF lv /= 0
        THEN LET popped == PopHeaders([stack |-> st.stack, meta |-> st.init_meta], lv)
                 data == Str(Strip(Slice(sl, lv + 1, Len(sl))))
                 meta == [popped.meta EXCEPT
                            ![HeaderName(lv)] = [set |-> TRUE, data |-> data]]
             IN  [lwm |-> flushed,
                  cur |-> << entry >>,
                  cur_meta |-> meta,
                  stack |-> Append(popped.stack,
                                   [level |-> lv, name |-> HeaderName(lv), data |-> data]),
                  init_meta |-> meta]
        ELSE IF sl /= << >>
        THEN [st EXCEPT !.cur = Append(st.cur, entry), !.cur_meta = st.init_meta]
        ELSE [st EXCEPT !.lwm = flushed, !.cur = << >>, !.cur_meta = st.init_meta]

RECURSIVE HeaderLoop(_, _)
HeaderLoop(lines, st) ==
    IF lines = << >>
    THEN IF st.cur /= << >>
         THEN Append(st.lwm, [content |-> JoinLines(st.cur), metadata |-> st.cur_meta])
         ELSE st.lwm
    ELSE HeaderLoop(Tail(lines), HeaderStep(st, Head(lines)))

\* content.split("\n")[-1][0]: the first character of the last line
RECURSIVE LastLine(_)
LastLine(t) ==
    LET j == FindFrom(t, 1, <<"\n">>)
    IN  IF j = 0 THEN t ELSE LastLine(Slice(t, j + 1, Len(t)))

\* the "  \n" that joins two aggregated contents
AggregateJoin == << Synthetic(" "), Synthetic(" "), Synthetic("\n") >>

\* aggregate_lines_to_chunks: a line joins the chunk before it when the
\* metadata is the same, or when that chunk ends in a heading line of a
\* shallower level (strip_headers is False)
RECURSIVE AggregateLines(_, _)
AggregateLines(lines, agg) ==
    IF lines = << >> THEN agg
    ELSE LET line == Head(lines)
             last == agg[Len(agg)]
             joined == last.content \o AggregateJoin \o line.content
         IN  IF agg /= << >> /\ last.metadata = line.metadata
             THEN AggregateLines(Tail(lines),
                                 [agg EXCEPT ![Len(agg)].content = joined])
             ELSE IF /\ agg /= << >>
                     /\ MetadataLen(last.metadata) < MetadataLen(line.metadata)
                     /\ LastLine(last.content)[1].c = "#"
             THEN AggregateLines(Tail(lines),
                                 [agg EXCEPT ![Len(agg)] =
                                     [content |-> joined, metadata |-> line.metadata]])
             ELSE AggregateLines(Tail(lines), Append(agg, line))

\* self.header_splitter.split_text(text): the sections of the document,
\* each [content, metadata]
HeaderSplit(t) ==
    AggregateLines(HeaderLoop(SplitLines(t),
                              [lwm |-> << >>, cur |-> << >>,
                               cur_meta |-> EmptyMetadata, stack |-> << >>,
                               init_meta |-> EmptyMetadata]),
                   << >>)

-----------------------------------------------------------------------------
(* Chunker (process.py).                                                   *)

\* the path of the document read (ray.data.read_text, include_paths=True)
Paths == {"acme_README.md"}

\* Path(row["path"]).name
PathName(path) == path

\* path.stem.replace("_README", "")
RepoName(path) ==
    CASE path = "acme_README.md" -> "acme"
      [] path = "beta_README.md" -> "beta"
      [] path = "core_README.md" -> "core"

\* the index at which the pattern <a[^>]*></a> matched at i ends, 0 if it
\* does not match there; h is a string (a sequence of characters)
AnchorEnd(h, i) ==
    LET closes == {j \in (i + 2)..Len(h) : h[j] = ">"}
        j == IF closes = {} THEN 0
             ELSE CHOOSE x \in closes : \A y \in closes : x <= y
    IN  IF /\ i + 1 <= Len(h) /\ h[i] = "<" /\ h[i + 1] = "a"
           /\ j /= 0 /\ j + 4 <= Len(h)
           /\ SubSeq(h, j + 1, j + 4) = << "<", "/", "a", ">" >>
        THEN j + 4 ELSE 0

RECURSIVE RemoveAnchors(_, _)
RemoveAnchors(h, i) ==
    IF i > Len(h) THEN << >>
    ELSE IF AnchorEnd(h, i) /= 0 THEN RemoveAnchors(h, AnchorEnd(h, i) + 1)
    ELSE << h[i] >> \o RemoveAnchors(h, i + 1)

RECURSIVE StripStr(_)
StripStr(h) ==
    IF h /= << >> /\ Head(h) \in Whitespace THEN StripStr(Tail(h))
    ELSE IF h /= << >> /\ h[Len(h)] \in Whitespace
    THEN StripStr(SubSeq(h, 1, Len(h) - 1))
    ELSE h

\* Chunker._clean_header: re.sub(r"<a[^>]*></a>", "", h).strip()
CleanHeader(h) == StripStr(RemoveAnchors(h, 1))

\* uuid.uuid4(): the n-th value drawn differs from every value drawn before
Uuid4(n) == n

\* mutant: the value is drawn once, when the instance is constructed
DocIdDrawnInInit(ctr) == Uuid4(1)

\* doc_id = str(uuid.uuid4()), drawn once per call before the loops
NewDocId(ctr) == Uuid4(ctr + 1)

\* mutant: the value is drawn once per call, outside the loops
ChunkIdDrawnPerCall(ctr, n) == Uuid4(ctr + 2)

\* "chunk_id": str(uuid.uuid4()), drawn for every chunk appended: with n
\* chunks appended before it, the (n + 1)-th draw after the one for doc_id
NewChunkId(ctr, n) == Uuid4(ctr + 2 + n)

\* mutant: chunk_index = 0 inside the loop over the sections
SectionStartIndexReset(idx) == 0

\* chunk_index as the loop over a section's sub_texts starts: it is set to 0
\* once, before the loop over the sections, and carried from one section to
\* the next
SectionStartIndex(idx) == idx

\* mutant: the comparison with chunk_size the wrong way round
SubTextsFlipped(section_text, S, O) ==
    IF Len(section_text) < S THEN SizeSplit(section_text, S, O)
    ELSE << section_text >>

\* mutant: an oversized section is cut to chunk_size instead of split
SubTextsTruncated(section_text, S, O) ==
    IF Len(section_text) > S THEN << SubSeq(section_text, 1, S) >>
    ELSE << section_text >>

\* sub_texts: the section itself unless it is longer than chunk_size
SubTexts(section_text, S, O) ==
    IF Len(section_text) > S THEN SizeSplit(section_text, S, O)
    ELSE << section_text >>

\* the dict appended for one sub_text
ChunkDict(sub_text, path, idx, doc_id, chunk_id, section_headers) ==
    [text |-> sub_text,
     source_repo |-> RepoName(path),
     source_file |-> PathName(path),
     chunk_index |-> idx,
     doc_id |-> doc_id,
     chunk_id |-> chunk_id,
     section_h1 |-> CleanHeader(section_headers["h1"].data),
     section_h2 |-> section_headers["h2"].data,
     section_h3 |-> section_headers["h3"].data]

\* the inner loop: for sub_text in sub_texts; n chunks were appended before
SectionChunks(sub_texts, path, idx0, n, doc_id, ctr, section_headers) ==
    [k \in 1..Len(sub_texts) |->
        ChunkDict(sub_texts[k], path, idx0 + k - 1, doc_id,
                  NewChunkId(ctr, n + k - 1), section_headers)]

\* the outer loop: for split in header_splits
RECURSIVE ChunkLoop(_, _, _, _, _, _, _, _)
ChunkLoop(header_splits, path, idx, n, doc_id, ctr, S, O) ==
    IF header_splits = << >> THEN << >>
    ELSE LET split == Head(header_splits)
             sub_texts == SubTexts(split.content, S, O)
             idx0 == SectionStartIndex(idx)
         IN  SectionChunks(sub_texts, path, idx0, n, doc_id, ctr, split.metadata)
             \o ChunkLoop(Tail(header_splits), path, idx0 + Len(sub_texts),
                          n + Len(sub_texts), doc_id, ctr, S, O)

\* Chunker.__call__(row): the chunks returned
ChunkerCall(r, ctr, S, O) ==
    ChunkLoop(HeaderSplit(r.text), r.path, 0, 0, NewDocId(ctr), ctr, S, O)

-----------------------------------------------------------------------------
(* The destination store: one PostgreSQL table with its indexes.  DDL is   *)
(* transactional: a statement changes the table as the transaction sees    *)
(* it, and the commit installs that table for every other connection.      *)

\* writer workers of the actor pool that runs PGVectorWriter
NumWriters == 2
\* rows per writer batch; stands for batch_size = 100 of the writer stage,
\* scaled to the corpus of the model
BatchSize == 2
\* documents in the corpus
MaxDocs == 2
\* worker crashes in one behaviour
MaxCrashes == 1
\* runs of main() in one behaviour
MaxRuns == 2

\* chunk_size = params.EMBEDDING_CHUNK_SIZE
EMBEDDING_CHUNK_SIZE == 800
\* chunk_overlap = params.EMBEDDING_CHUNK_OVERLAP
EMBEDDING_CHUNK_OVERLAP == 100

\* batch_size of the Embedder stage (params.EMBEDDING_BATCH_SIZE)
EMBEDDING_BATCH_SIZE == 8

\* embedding VECTOR(384) NOT NULL: the length of the vectors the column of
\* the destination table takes
VECTOR_DIM == 384

\* the vector lengths an embedding model may return: the one the table is
\* declared with, or another (a model of another dimension, a test double)
EmbeddingDims == {VECTOR_DIM, 10}

\* the configuration values of the environment a run cannot do without:
\* those main() and get_connection_string() check, and the table name
CheckedConfig ==
    {"DVC_REPO", "AWS_ENDPOINT_URL", "PGVECTOR_HOST", "PGVECTOR_PASSWORD",
     "PGVECTOR_DATABASE", "PGVECTOR_USER"}

RequiredConfig == CheckedConfig \cup {"PGVECTOR_TABLE_NAME"}

Writers == 1..NumWriters

NoTable == [exists |-> FALSE, rows |-> {}, indexes |-> {}]

\* {table_name}_embedding_idx: USING hnsw (embedding vector_cosine_ops)
EmbeddingIdx == "embedding_idx_hnsw_cosine"

\* {table_name}_id_idx: ON {table_name} (id)
IdIdx == "id_idx"

\* no transaction open
NoTxn == [open |-> FALSE, tbl |-> NoTable, ext |-> FALSE]

Ids(rows) == {r.id : r \in rows}

\* DROP TABLE IF EXISTS {table_name} CASCADE: the table, its rows and its
\* indexes are gone
DropTableIfExists(t) == NoTable

\* CREATE TABLE {table_name} (id UUID PRIMARY KEY, ...): a new, empty table
\* without secondary indexes (the statement raises if t exists)
CreateTable(t) == [exists |-> TRUE, rows |-> {}, indexes |-> {}]

\* CREATE TABLE IF NOT EXISTS: nothing happens to a table that exists
CreateTableIfNotExists(t) == IF t.exists THEN t ELSE CreateTable(t)

\* mutant: the statement is skipped
CreateIndexSkipped(t, name) == t

\* CREATE INDEX name ON {table_name} (the statement raises if the index exists)
CreateIndex(t, name) == [t EXCEPT !.indexes = @ \cup {name}]

\* CREATE INDEX IF NOT EXISTS name
CreateIndexIfNotExists(t, name) ==
    IF name \in t.indexes THEN t ELSE CreateIndex(t, name)

\* mutant: the transaction is rolled back where it should commit
InitTxnRolledBack(committed, txn) == committed

\* conn.commit(): the table as the transaction built it replaces the
\* committed one
InitTxnCommitted(committed, txn) == txn.tbl

\* nothing of main() or of the writer stage has run
PipelineIdle ==
    /\ tbl = NoTable /\ ext_vector = FALSE /\ serial = 0
    /\ pc = "start" /\ runs = 0 /\ corpus = << >>
    /\ init_policy = "drop_and_recreate"
    /\ missing = "none" /\ model_dim = VECTOR_DIM
    /\ init_txn = NoTxn /\ tbl_before = NoTable
    /\ dataset = << >> /\ embedded = 0 /\ todo = {} /\ done = {}
    /\ w_pc = [w \in Writers |-> "idle"]
    /\ w_batch = [w \in Writers |-> 0]
    /\ w_i = [w \in Writers |-> 0]
    /\ w_pend = [w \in Writers |-> {}]
    /\ w_conn = [w \in Writers |-> "none"]
    /\ commits = << >> /\ interrupted = {} /\ raised = {} /\ crashes = 0
    /\ surfaced = {}

\* no snapshot of the object has been taken
NoState == << >>

\* the outcome of an operation on the object: the operation, the error it
\* raised, the connection it returned or ran on, the error of close() it
\* passed over
Outcome(op, err, conn, passed) ==
    [op |-> op, err |-> err, conn |-> conn, passed |-> passed]

\* no operation on the object has been observed
NoOutcome == Outcome("none", "none", 0, "none")

\* no PGVectorWriter object is under observation
InstanceIdle ==
    /\ revision = "process"
    /\ ctor_args = << >> /\ self_dict = << >> /\ pickled = NoState
    /\ conns = << >> /\ restored = FALSE /\ batches_since = 0
    /\ outcome = NoOutcome

\* None, and a value that may be None: a file that is absent or has
\* contents, a hash, a return code or an exit status not there yet
None == << >>

Some(x) == << x >>

\* run_pipeline.main() has not been started
RunnerIdle ==
    /\ rp_pc = "start" /\ updates = FALSE /\ params_file = "committed"
    /\ lock_file = None /\ hash_before = None
    /\ returncode = None /\ markers = << >> /\ exit_status = None

-----------------------------------------------------------------------------
(* SpecChunker: Chunker calls on documents of at most MaxLen characters.   *)

\* the document texts: every string over the Alphabet, each character
\* tagged with its position
Strings == UNION {[1..n -> Alphabet] : n \in 0..MaxLen}

\* documents with named headings, longer than MaxLen: a heading of each
\* level whose name starts with an empty anchor (the markup GitHub READMEs
\* carry), a heading directly followed by a deeper one, a text line that
\* starts with "#" before the first heading, and a document with text before
\* the first heading and a second top-level heading
HeadingDocs ==
    { << "#", " ", "<", "a", ">", "<", "/", "a", ">", "b" >>,
      << "#", "#", " ", "<", "a", ">", "<", "/", "a", ">", "b" >>,
      << "#", "#", "#", " ", "<", "a", ">", "<", "/", "a", ">", "b" >>,
      << "#", " ", "b", "\n", "#", "#", " ", "c", "\n", "d" >>,
      << "#", "x", "\n", "#", " ", "b" >>,
      << "b", "\n", "#", " ", "c", "\n", "d", "\n", "#", "#", " ", "e", "\n",
         "f", "\n", "#", " ", "g", "\n", "h" >> }

MkText(s) == [i \in 1..Len(s) |-> [c |-> s[i], p |-> i]]

NoRow == [path |-> "", text |-> << >>]

InitChunker ==
    /\ chunk_size \in 1..MaxChunkSize
    /\ chunk_overlap \in 0..(chunk_size - 1)
    /\ row = NoRow
    /\ chunks = << >>
    /\ emitted = {}
    /\ calls = 0
    /\ uuid_ctr = 0
    /\ PipelineIdle
    /\ InstanceIdle
    /\ RunnerIdle

\* one call of the Chunker instance on one row of the dataset
ChunkerRun ==
    /\ calls < MaxCalls
    /\ row = NoRow
    /\ \E path \in Paths, s \in Strings \cup HeadingDocs :
          /\ row' = [path |-> path, text |-> MkText(s)]
    /\ chunks' = ChunkerCall(row', uuid_ctr, chunk_size, chunk_overlap)
    /\ emitted' = emitted \cup
          {[call |-> calls + 1, doc_id |-> chunks'[k].doc_id,
            chunk_id |-> chunks'[k].chunk_id,
            chunk_index |-> chunks'[k].chunk_index] : k \in 1..Len(chunks')}
    /\ uuid_ctr' = uuid_ctr + 1 + Len(chunks')
    /\ calls' = calls + 1
    /\ UNCHANGED << chunk_size, chunk_overlap, pipelineVars, instanceVars,
                    runnerVars >>

\* flat_map takes the returned list; the call's locals are gone
ChunkerReturn ==
    /\ row /= NoRow
    /\ row' = NoRow
    /\ chunks' = << >>
    /\ UNCHANGED << chunk_size, chunk_overlap, emitted, calls, uuid_ctr,
                    pipelineVars, instanceVars, runnerVars >>

NextChunker == ChunkerRun \/ ChunkerReturn

SpecChunker == InitChunker /\ [][NextChunker]_vars

-----------------------------------------------------------------------------
(* Claims about the Chunker, checked under SpecChunker.                    *)

\* the positions of the document a text holds
Positions(t) == {t[i].p : i \in 1..Len(t)} \ {0}

\* the positions of the non-whitespace characters of a text, in order
NonWsPositions(t) ==
    LET kept == SelectSeq(t, LAMBDA ch : ch.c \notin Whitespace /\ ch.p /= 0)
    IN  [i \in 1..Len(kept) |-> kept[i].p]

\* no line of the text is a heading of level 1 to 3
HeadingFree(t) ==
    LET lines == SplitLines(t)
    IN  \A i \in 1..Len(lines) : HeaderLevel(Strip(lines[i].txt)) = 0

WhitespaceFree(t) == \A i \in 1..Len(t) : t[i].c \notin Whitespace

\* ceil((L - O) / (S - O)) chunks for L > S, one chunk for 0 < L <= S
WindowCount(L, S, O) ==
    IF L > S THEN ((L - O) + (S - O) - 1) \div (S - O) ELSE 1

InCall == row /= NoRow

\* C6: the chunk_index values of the chunks one call returns are exactly
\* 0..N-1, in the order the chunks are emitted, across all heading sections
\* and all size-splits of a section.
C6_ChunkIndexIsPosition ==
    \A k \in 1..Len(chunks) : chunks[k].chunk_index = k - 1

\* C6 witness: a call returned chunks of two sections, one of them split by
\* size.
C6_Witness ==
    /\ InCall
    /\ Len(HeaderSplit(row.text)) >= 2
    /\ \E i \in 1..Len(HeaderSplit(row.text)) :
          Len(HeaderSplit(row.text)[i].content) > chunk_size
    /\ Len(chunks) >= 3

\* C7: two chunks carry the same doc_id if and only if the same Chunker call
\* produced them; a later call, on another document or on the same one,
\* never reuses an earlier doc_id.
C7_DocIdPerCall ==
    \A x, y \in emitted : (x.doc_id = y.doc_id) <=> (x.call = y.call)

\* C7 witness: two calls have emitted chunks, the earlier one several.
C7_Witness ==
    \E x, y, z \in emitted :
        /\ x.call < y.call
        /\ z.call = x.call /\ z /= x

\* C8: every chunk emitted in a run has a chunk_id of its own, within one
\* document and across documents.
C8_ChunkIdUnique ==
    /\ \A j, k \in 1..Len(chunks) :
          chunks[j].chunk_id = chunks[k].chunk_id => j = k
    /\ \A x, y \in emitted :
          x.chunk_id = y.chunk_id => x.call = y.call /\ x.chunk_index = y.chunk_index
    /\ Cardinality({x.chunk_id : x \in emitted}) = uuid_ctr - calls

\* C8 witness: two calls have emitted chunks, one of them several.
C8_Witness ==
    /\ InCall /\ Len(chunks) >= 2
    /\ \E x \in emitted : x.call /= calls

SharedWithNext(k) == Positions(chunks[k].text) \cap Positions(chunks[k + 1].text)

OverlapBounded ==
    \A k \in 1..(Len(chunks) - 1) : Cardinality(SharedWithNext(k)) <= chunk_overlap

\* the chunks concatenated in chunk_index order, each without the characters
\* it repeats from the chunk before it, whitespace left out
RECURSIVE Reconstruct(_)
Reconstruct(k) ==
    IF k > Len(chunks) THEN << >>
    ELSE LET before == IF k = 1 THEN {} ELSE Positions(chunks[k - 1].text)
         IN  SelectSeq(NonWsPositions(chunks[k].text), LAMBDA p : p \notin before)
             \o Reconstruct(k + 1)

\* C10 as stated: every character position of the document is in some
\* chunk, and consecutive chunks share at most chunk_overlap characters.
C10_CoversEveryPosition ==
    InCall => /\ \A p \in 1..Len(row.text) :
                    \E k \in 1..Len(chunks) : p \in Positions(chunks[k].text)
              /\ OverlapBounded

\* C10 amended: every non-whitespace character of the document is in some
\* chunk, consecutive chunks share at most chunk_overlap characters, and
\* the chunks in chunk_index order, minus what each repeats from the one
\* before, give back the document's non-whitespace characters in order.
C10_CoversNonWhitespace ==
    InCall => /\ \A p \in 1..Len(row.text) :
                    row.text[p].c \notin Whitespace =>
                        \E k \in 1..Len(chunks) : p \in Positions(chunks[k].text)
              /\ OverlapBounded
              /\ Reconstruct(1) = NonWsPositions(row.text)

\* C10 witness: a document with whitespace was cut into chunks that overlap.
C10_Witness ==
    /\ InCall /\ ~WhitespaceFree(row.text)
    /\ \E k \in 1..(Len(chunks) - 1) : SharedWithNext(k) /= {}

\* the string holds a match of <a[^>]*></a>
HasAnchor(h) ==
    \E i, j \in 1..Len(h) :
        /\ i + 2 <= j /\ j + 4 <= Len(h)
        /\ h[i] = "<" /\ h[i + 1] = "a" /\ h[j] = ">"
        /\ \A x \in (i + 2)..(j - 1) : h[x] /= ">"
        /\ SubSeq(h, j + 1, j + 4) = << "<", "/", "a", ">" >>

\* the positions of the heading lines of a text
HeadingPositions(t) ==
    LET lines == SplitLines(t)
    IN  UNION {Positions(lines[i].txt) : i \in
                 {x \in 1..Len(lines) : HeaderLevel(Strip(lines[x].txt)) /= 0}}

\* C11: the heading value a chunk carries at each of the three levels
\* (section_h1, section_h2, section_h3) holds no <a ...></a> anchor markup,
\* and the heading lines stay in the chunk bodies.
C11_AnchorsRemovedAtEveryLevel ==
    InCall =>
        /\ \A k \in 1..Len(chunks) :
              /\ ~HasAnchor(chunks[k].section_h1)
              /\ ~HasAnchor(chunks[k].section_h2)
              /\ ~HasAnchor(chunks[k].section_h3)
        /\ \A p \in HeadingPositions(row.text) :
              row.text[p].c \notin Whitespace =>
                  \E k \in 1..Len(chunks) : p \in Positions(chunks[k].text)

\* the line of the document a position is on
LineOf(t, p) == 1 + Cardinality({q \in 1..(p - 1) : t[q].c = "\n"})

\* the heading of level lv in force at line j of the document: the name of
\* the last heading line of that level at or before j that no later heading
\* of the same or a shallower level, at or before j, has closed
InForce(t, j, lv) ==
    LET lines == SplitLines(t)
        level(i) == HeaderLevel(Strip(lines[i].txt))
        open == {i \in 1..j : /\ level(i) = lv
                              /\ \A x \in (i + 1)..j : level(x) \notin 1..lv}
    IN  IF open = {} THEN << >>
        ELSE LET sl == Strip(lines[CHOOSE i \in open : TRUE].txt)
             IN  Str(Strip(Slice(sl, lv + 1, Len(sl))))

\* the value a chunk carries for a heading level
SectionHeader(chunk, lv) ==
    CASE lv = 1 -> chunk.section_h1
      [] lv = 2 -> chunk.section_h2
      [] lv = 3 -> chunk.section_h3

\* C12: every chunk carries the enclosing heading hierarchy: the chunks of
\* one heading section, size-split pieces included, carry the same h1..h3
\* values, and these are the headings in force where the chunk's text
\* stands in the document (anchor markup aside); a chunk that precedes any
\* heading carries an empty hierarchy.
C12_EnclosingHierarchy ==
    InCall =>
        /\ \A k \in 1..Len(chunks), lv \in 1..3 :
              \A p \in Positions(chunks[k].text) :
                  CleanHeader(SectionHeader(chunks[k], lv))
                      = CleanHeader(InForce(row.text, LineOf(row.text, p), lv))
        /\ \A j, k \in 1..Len(chunks) :
              (\E sec \in 1..Len(HeaderSplit(row.text)) :
                  /\ Positions(chunks[j].text)
                        \subseteq Positions(HeaderSplit(row.text)[sec].content)
                  /\ Positions(chunks[k].text)
                        \subseteq Positions(HeaderSplit(row.text)[sec].content))
              => \A lv \in 1..3 : SectionHeader(chunks[j], lv)
                                     = SectionHeader(chunks[k], lv)

-----------------------------------------------------------------------------
(* main() of process.py and the stages it runs.                            *)

\* the READMEs of the corpus, as ray.data.read_text yields them
CorpusPaths == << "acme_README.md", "beta_README.md", "core_README.md" >>

CorpusTexts ==
    << << "a" >>, << "a", "\n", "#" >>, << "#", "\n", "a" >> >>

CorpusRow(i) == [path |-> CorpusPaths[i], text |-> MkText(CorpusTexts[i])]

Corpora == {[i \in 1..n |-> CorpusRow(i)] : n \in 1..MaxDocs}

\* ds.flat_map(Chunker, ...): the chunks of every row, in order; ctr is the
\* number of uuids drawn before
RECURSIVE FlatMapChunker(_, _, _, _)
FlatMapChunker(rows, ctr, S, O) ==
    IF rows = << >> THEN << >>
    ELSE LET out == ChunkerCall(Head(rows), ctr, S, O)
         IN  out \o FlatMapChunker(Tail(rows), ctr + 1 + Len(out), S, O)

\* the uuids one execution of the Chunker stage draws
Draws(rows, S, O) == Len(rows) + Len(FlatMapChunker(rows, 0, S, O))

\* map_batches(PGVectorWriter, batch_size = ...): the dataset cut into
\* consecutive batches
NumBatches(ds) == (Len(ds) + BatchSize - 1) \div BatchSize

\* mutant: the last chunk of every batch is left out
BatchWithoutLast(ds, b) ==
    SubSeq(ds, (b - 1) * BatchSize + 1,
           (IF b * BatchSize < Len(ds) THEN b * BatchSize ELSE Len(ds)) - 1)

Batch(ds, b) ==
    SubSeq(ds, (b - 1) * BatchSize + 1,
           IF b * BatchSize < Len(ds) THEN b * BatchSize ELSE Len(ds))

\* Embedder.__call__ on one chunk of its batch: the fields of the chunk
\* and its vector, of which the model keeps the length; self.model.encode
\* is called once, outside any try block, and the vectors are returned as
\* the model gave them
EmbedderCall(chunk, dim) == chunk @@ [embeddings |-> dim]

\* the record PGVectorWriter.__call__ inserts for one chunk of its batch
RowOf(chunk) ==
    [id |-> chunk.chunk_id,
     content |-> Str(chunk.text),
     embedding |-> chunk.embeddings,
     metadata |-> [source_repo |-> chunk.source_repo,
                   source_file |-> chunk.source_file,
                   chunk_index |-> chunk.chunk_index,
                   doc_id |-> chunk.doc_id,
                   section_h1 |-> chunk.section_h1,
                   section_h2 |-> chunk.section_h2,
                   section_h3 |-> chunk.section_h3]]

\* the batches of the writer stage whose chunks the Embedder stage has
\* returned when it has returned n chunks
Available(ds, n) ==
    {b \in 1..NumBatches(ds) : b * BatchSize <= n \/ n = Len(ds)}

\* the batch the writer stage is handed: chunks with their vectors
WriterBatch(b) ==
    [k \in 1..Len(Batch(dataset, b)) |->
        EmbedderCall(Batch(dataset, b)[k], model_dim)]

BatchRows(b) == {RowOf(WriterBatch(b)[k]) : k \in 1..Len(WriterBatch(b))}

InitSteps ==
    {"init_connect", "init_drop", "init_ext", "init_table", "init_idx_emb",
     "init_idx_id", "init_commit"}

\* a run of process.py starts on a store without the table; the policy a
\* deployment is configured with is any of the two, and no statement of
\* process.py reads it
Init ==
    /\ chunk_size = EMBEDDING_CHUNK_SIZE
    /\ chunk_overlap = EMBEDDING_CHUNK_OVERLAP
    /\ row = NoRow /\ chunks = << >> /\ emitted = {} /\ calls = 0
    /\ uuid_ctr = 0
    /\ tbl = NoTable /\ ext_vector = FALSE /\ serial = 0
    /\ pc = "start" /\ runs = 1
    /\ corpus \in Corpora
    /\ init_policy \in {"drop_and_recreate", "create_if_not_exists"}
    /\ missing \in {"none"} \cup RequiredConfig
    /\ model_dim \in EmbeddingDims
    /\ init_txn = NoTxn /\ tbl_before = NoTable
    /\ dataset = << >> /\ embedded = 0 /\ todo = {} /\ done = {}
    /\ w_pc = [w \in Writers |-> "idle"]
    /\ w_batch = [w \in Writers |-> 0]
    /\ w_i = [w \in Writers |-> 0]
    /\ w_pend = [w \in Writers |-> {}]
    /\ w_conn = [w \in Writers |-> "none"]
    /\ commits = << >> /\ interrupted = {} /\ raised = {} /\ crashes = 0
    /\ surfaced = {}
    /\ InstanceIdle
    /\ RunnerIdle

\* main() up to the call of initialize_table: ray.init(), the parameters
\* and the environment are read; no check finds a value missing.
\* os.getenv("PGVECTOR_TABLE_NAME") is not checked: table_name is None
\* when it is missing, and the statements are formatted with it
MainStart ==
    /\ pc = "start"
    /\ missing \notin CheckedConfig
    /\ pc' = "init_connect"
    /\ UNCHANGED << chunkerVars, instanceVars, runnerVars, storeVars, runs,
                    corpus, init_policy, missing, model_dim, init_txn,
                    tbl_before, stageVars, writerVars, historyVars >>

\* main(), get_connection_string(): a checked value is missing from the
\* environment, ValueError is raised before initialize_table is called
MainConfigMissing ==
    /\ pc = "start"
    /\ missing \in CheckedConfig
    /\ raised' = raised \cup {"ValueError"}
    /\ pc' = "fatal"
    /\ UNCHANGED << chunkerVars, instanceVars, runnerVars, storeVars, runs,
                    corpus, init_policy, missing, model_dim, init_txn,
                    tbl_before, stageVars, writerVars, commits, interrupted,
                    surfaced, crashes >>

\* initialize_table: psycopg.connect(connection_string)
InitConnect ==
    /\ pc = "init_connect"
    /\ init_txn' = [open |-> TRUE, tbl |-> tbl, ext |-> ext_vector]
    /\ tbl_before' = tbl
    /\ pc' = "init_drop"
    /\ UNCHANGED << chunkerVars, instanceVars, runnerVars, storeVars, runs,
                    corpus, init_policy, missing, model_dim, stageVars,
                    writerVars, historyVars >>

\* initialize_table: DROP TABLE IF EXISTS {table_name} CASCADE
InitDropTable ==
    /\ pc = "init_drop"
    /\ init_txn' = [init_txn EXCEPT !.tbl = DropTableIfExists(@)]
    /\ pc' = "init_ext"
    /\ UNCHANGED << chunkerVars, instanceVars, runnerVars, storeVars, runs,
                    corpus, init_policy, missing, model_dim, tbl_before,
                    stageVars, writerVars, historyVars >>

\* initialize_table: CREATE EXTENSION IF NOT EXISTS vector
InitCreateExtension ==
    /\ pc = "init_ext"
    /\ init_txn' = [init_txn EXCEPT !.ext = TRUE]
    /\ pc' = "init_table"
    /\ UNCHANGED << chunkerVars, instanceVars, runnerVars, storeVars, runs,
                    corpus, init_policy, missing, model_dim, tbl_before,
                    stageVars, writerVars, historyVars >>

\* initialize_table: CREATE TABLE {table_name} (...); DuplicateTable is
\* raised, and the transaction rolled back, if the table exists
InitCreateTable ==
    /\ pc = "init_table"
    /\ IF init_txn.tbl.exists
       THEN /\ init_txn' = NoTxn
            /\ pc' = "fatal"
       ELSE /\ init_txn' = [init_txn EXCEPT !.tbl = CreateTable(@)]
            /\ pc' = "init_idx_emb"
    /\ UNCHANGED << chunkerVars, instanceVars, runnerVars, storeVars, runs,
                    corpus, init_policy, missing, model_dim, tbl_before,
                    stageVars, writerVars, historyVars >>

\* initialize_table: CREATE INDEX {table_name}_embedding_idx ... USING hnsw
\* (embedding vector_cosine_ops)
InitCreateEmbeddingIndex ==
    /\ pc = "init_idx_emb"
    /\ init_txn' = [init_txn EXCEPT !.tbl = CreateIndex(@, EmbeddingIdx)]
    /\ pc' = "init_idx_id"
    /\ UNCHANGED << chunkerVars, instanceVars, runnerVars, storeVars, runs,
                    corpus, init_policy, missing, model_dim, tbl_before,
                    stageVars, writerVars, historyVars >>

\* initialize_table: CREATE INDEX {table_name}_id_idx ON {table_name} (id)
InitCreateIdIndex ==
    /\ pc = "init_idx_id"
    /\ init_txn' = [init_txn EXCEPT !.tbl = CreateIndex(@, IdIdx)]
    /\ pc' = "init_commit"
    /\ UNCHANGED << chunkerVars, instanceVars, runnerVars, storeVars, runs,
                    corpus, init_policy, missing, model_dim, tbl_before,
                    stageVars, writerVars, historyVars >>

\* initialize_table: conn.commit(), the with blocks are left and the
\* function returns
InitCommit ==
    /\ pc = "init_commit"
    /\ tbl' = InitTxnCommitted(tbl, init_txn)
    /\ ext_vector' = init_txn.ext
    /\ init_txn' = NoTxn
    /\ pc' = "get_urls"
    /\ UNCHANGED << chunkerVars, instanceVars, runnerVars, serial, runs,
                    corpus, init_policy, missing, model_dim, tbl_before,
                    stageVars, writerVars, historyVars >>

\* initialize_table: the server cannot be reached, or the connection is
\* lost at a statement; psycopg rolls the transaction back as the with
\* block is left by the exception, and main() ends with the traceback
InitFail ==
    /\ pc \in InitSteps
    /\ init_txn' = NoTxn
    /\ pc' = "fatal"
    /\ UNCHANGED << chunkerVars, instanceVars, runnerVars, storeVars, runs,
                    corpus, init_policy, missing, model_dim, tbl_before,
                    stageVars, writerVars, historyVars >>

\* main(): get_readme_urls returns the urls of the corpus
MainGetUrls ==
    /\ pc = "get_urls"
    /\ pc' = "execute"
    /\ tbl_before' = NoTable
    /\ UNCHANGED << chunkerVars, instanceVars, runnerVars, storeVars, runs,
                    corpus, init_policy, missing, model_dim, init_txn,
                    stageVars, writerVars, historyVars >>

\* main(): get_readme_urls raises RuntimeError, or returns no url and
\* main() raises RuntimeError
MainGetUrlsFail ==
    /\ pc = "get_urls"
    /\ pc' = "fatal"
    /\ tbl_before' = NoTable
    /\ UNCHANGED << chunkerVars, instanceVars, runnerVars, storeVars, runs,
                    corpus, init_policy, missing, model_dim, init_txn,
                    stageVars, writerVars, historyVars >>

\* main(): the dataset is built; ds.count() executes the Chunker stage
\* once, ds.take_all() executes it again and feeds the Embedder stage
MainExecute ==
    /\ pc = "execute"
    /\ raised = {}
    /\ LET d == Draws(corpus, chunk_size, chunk_overlap)
       IN  /\ dataset' = FlatMapChunker(corpus, uuid_ctr + d, chunk_size,
                                        chunk_overlap)
           /\ uuid_ctr' = uuid_ctr + d + d
    /\ embedded' = 0
    /\ todo' = {}
    /\ done' = {}
    /\ commits' = [b \in 1..NumBatches(dataset') |-> 0]
    /\ pc' = "pipeline"
    /\ UNCHANGED << instanceVars, runnerVars, chunk_size, chunk_overlap, row,
                    chunks, emitted, calls, storeVars, runs, corpus,
                    init_policy, missing, model_dim, init_txn, tbl_before,
                    writerVars, interrupted, surfaced, raised, crashes >>

\* Chunker.__call__ raises for a row while ds.count() executes the Chunker
\* stage: no statement of __call__ is inside a try block and flat_map
\* catches nothing, so the exception fails the execution of the dataset
ChunkerRaises ==
    /\ pc = "execute"
    /\ raised = {}
    /\ raised' = raised \cup {"ChunkerError"}
    /\ UNCHANGED << chunkerVars, instanceVars, runnerVars, storeVars,
                    mainVars, stageVars, writerVars, commits, interrupted,
                    surfaced, crashes >>

-----------------------------------------------------------------------------
(* Embedder.__call__ of process.py, run by the workers of the Embedder     *)
(* stage on batches of EMBEDDING_BATCH_SIZE chunks.                        *)

\* the number of chunks returned once the next batch is
NextEmbedded ==
    IF embedded + EMBEDDING_BATCH_SIZE < Len(dataset)
    THEN embedded + EMBEDDING_BATCH_SIZE ELSE Len(dataset)

\* Embedder.__call__ returns the next batch with its vectors; the batches
\* of the writer stage it completes can be handed out
EmbedderReturn ==
    /\ pc = "pipeline"
    /\ raised = {}
    /\ embedded < Len(dataset)
    /\ embedded' = NextEmbedded
    /\ todo' = todo \cup (Available(dataset, embedded')
                            \ Available(dataset, embedded))
    /\ UNCHANGED << chunkerVars, instanceVars, runnerVars, storeVars,
                    mainVars, dataset, done, writerVars, historyVars >>

\* self.model.encode raises on the next batch: the exception leaves
\* __call__ as it is, the batch is not encoded again and no chunk of it
\* is passed on
EmbedderRaises ==
    /\ pc = "pipeline"
    /\ raised = {}
    /\ embedded < Len(dataset)
    /\ raised' = raised \cup {"EncodeError"}
    /\ UNCHANGED << chunkerVars, instanceVars, runnerVars, storeVars,
                    mainVars, stageVars, writerVars, commits, interrupted,
                    surfaced, crashes >>

-----------------------------------------------------------------------------
(* PGVectorWriter.__call__ of process.py, run by the workers of the        *)
(* writer stage.  Ray hands a batch to a worker; a call that raises fails  *)
(* the dataset execution, and a batch whose worker died is handed out      *)
(* again.                                                                  *)

\* mutant: batches are handed out after the run was cancelled
WriterStageNeverStops == pc \in {"pipeline", "cancelled"}

\* the writer stage runs inside ds.take_all()
WriterStageRunning == pc = "pipeline"

BatchLen(w) == Len(Batch(dataset, w_batch[w]))

\* mutant: the connection is in autocommit mode, the row is visible at once
InsertAutocommit(rows, pend, r) == [rows |-> rows \cup {r}, pend |-> pend]

\* cur.execute(INSERT ...) inside the transaction of the connection: the
\* row is held by the transaction, the committed rows are as before
InsertInTxn(rows, pend, r) == [rows |-> rows, pend |-> pend \cup {r}]

\* mutant: the primary key is not enforced
ConflictsIgnored(r, rows, pend) == FALSE

\* id UUID PRIMARY KEY: the row has the id of a committed row or of a row
\* this transaction has inserted
Conflicts(r, rows, pend) == r.id \in Ids(rows) \cup Ids(pend)

\* mutant: the commit installs the rows of the transaction in place of
\* the committed ones
CommitReplaces(rows, pend) == pend

\* conn.commit(): the rows the transaction inserted are added to the
\* committed rows, which stay as they are
CommitRows(rows, pend) == rows \cup pend

\* the call of worker w ends without its commit: the transaction is rolled
\* back (by psycopg as the with block is left by an exception, by the
\* server when the worker is gone)
CutShort(w) ==
    /\ w_pend' = [w_pend EXCEPT ![w] = {}]
    /\ w_pc' = [w_pc EXCEPT ![w] = "idle"]
    /\ w_batch' = [w_batch EXCEPT ![w] = 0]
    /\ w_i' = [w_i EXCEPT ![w] = 0]
    /\ interrupted' = interrupted \cup
          {[batch |-> w_batch[w], k |-> w_i[w], n |-> BatchLen(w)]}

\* mutant: the connection is not closed as the with block is left
ConnLeftOpen(conn) == conn

\* the block of "with psycopg.connect(...) as conn" is left, by the return
\* or by an exception: the connection is closed
ConnAfterWith(conn) == "none"

\* a batch is handed to an idle worker: psycopg.connect(...) succeeds, the
\* call has a connection of its own
WriterConnect(w) ==
    /\ WriterStageRunning
    /\ w_pc[w] = "idle"
    /\ \E b \in todo :
          /\ todo' = todo \ {b}
          /\ w_batch' = [w_batch EXCEPT ![w] = b]
    /\ w_i' = [w_i EXCEPT ![w] = 0]
    /\ w_pend' = [w_pend EXCEPT ![w] = {}]
    /\ w_conn' = [w_conn EXCEPT ![w] = "idle"]
    /\ w_pc' = [w_pc EXCEPT ![w] = "insert"]
    /\ UNCHANGED << chunkerVars, instanceVars, runnerVars, storeVars,
                    mainVars, dataset, embedded, done, historyVars >>

\* a batch is handed to an idle worker: psycopg.connect(...) raises
WriterConnectFail(w) ==
    /\ WriterStageRunning
    /\ w_pc[w] = "idle"
    /\ \E b \in todo :
          /\ todo' = todo \ {b}
          /\ interrupted' = interrupted \cup
                {[batch |-> b, k |-> 0, n |-> Len(Batch(dataset, b))]}
    /\ raised' = raised \cup {"OperationalError"}
    /\ UNCHANGED << chunkerVars, instanceVars, runnerVars, storeVars,
                    mainVars, dataset, embedded, done, writerVars, commits,
                    surfaced, crashes >>

\* the next INSERT of the loop.  It raises UndefinedTable if the table
\* does not exist, DataException if the vector has not the length the
\* embedding column is declared with, and UniqueViolation if a row with
\* this id is committed or was inserted by this transaction; it waits
\* while another open transaction holds a row with this id.
WriterInsert(w) ==
    /\ w_pc[w] = "insert"
    /\ w_i[w] < BatchLen(w)
    /\ LET r == RowOf(WriterBatch(w_batch[w])[w_i[w] + 1])
           after == InsertInTxn(tbl.rows, w_pend[w], r)
       IN  /\ \A v \in Writers \ {w} : r.id \notin Ids(w_pend[v])
           /\ IF ~tbl.exists
              THEN /\ raised' = raised \cup {"UndefinedTable"}
                   /\ CutShort(w)
                   /\ w_conn' = [w_conn EXCEPT ![w] = ConnAfterWith(@)]
                   /\ UNCHANGED tbl
              ELSE IF r.embedding /= VECTOR_DIM
              THEN /\ raised' = raised \cup {"DataException"}
                   /\ CutShort(w)
                   /\ w_conn' = [w_conn EXCEPT ![w] = ConnAfterWith(@)]
                   /\ UNCHANGED tbl
              ELSE IF Conflicts(r, tbl.rows, w_pend[w])
              THEN /\ raised' = raised \cup {"UniqueViolation"}
                   /\ CutShort(w)
                   /\ w_conn' = [w_conn EXCEPT ![w] = ConnAfterWith(@)]
                   /\ UNCHANGED tbl
              ELSE /\ tbl' = [tbl EXCEPT !.rows = after.rows]
                   /\ w_pend' = [w_pend EXCEPT ![w] = after.pend]
                   /\ w_i' = [w_i EXCEPT ![w] = @ + 1]
                   /\ w_conn' = [w_conn EXCEPT ![w] = "intrans"]
                   /\ UNCHANGED << w_pc, w_batch, interrupted, raised >>
    /\ UNCHANGED << chunkerVars, instanceVars, runnerVars, ext_vector,
                    serial, mainVars, stageVars, commits, surfaced,
                    crashes >>

\* the connection is lost while the loop runs: the statement raises
\* OperationalError, which nothing in __call__ catches; the call has made
\* its one attempt
WriterLost(w) ==
    /\ w_pc[w] = "insert"
    /\ raised' = raised \cup {"OperationalError"}
    /\ surfaced' = surfaced \cup {[batch |-> w_batch[w], attempt |-> 1]}
    /\ CutShort(w)
    /\ w_conn' = [w_conn EXCEPT ![w] = ConnAfterWith(@)]
    /\ UNCHANGED << chunkerVars, instanceVars, runnerVars, storeVars,
                    mainVars, stageVars, commits, crashes >>

\* conn.commit() after the loop: the rows of the transaction become
\* visible together
WriterCommit(w) ==
    /\ w_pc[w] = "insert"
    /\ w_i[w] = BatchLen(w)
    /\ tbl' = [tbl EXCEPT !.rows = CommitRows(@, w_pend[w])]
    /\ w_pend' = [w_pend EXCEPT ![w] = {}]
    /\ w_conn' = [w_conn EXCEPT ![w] = "idle"]
    /\ commits' = [commits EXCEPT ![w_batch[w]] = @ + 1]
    /\ w_pc' = [w_pc EXCEPT ![w] = "committed"]
    /\ UNCHANGED << chunkerVars, instanceVars, runnerVars, ext_vector,
                    serial, mainVars, stageVars, w_batch, w_i, interrupted,
                    surfaced, raised, crashes >>

\* the with blocks are left, the connection is closed, return {}
WriterReturn(w) ==
    /\ w_pc[w] = "committed"
    /\ done' = done \cup {w_batch[w]}
    /\ w_pc' = [w_pc EXCEPT ![w] = "idle"]
    /\ w_batch' = [w_batch EXCEPT ![w] = 0]
    /\ w_i' = [w_i EXCEPT ![w] = 0]
    /\ w_conn' = [w_conn EXCEPT ![w] = ConnAfterWith(@)]
    /\ UNCHANGED << chunkerVars, instanceVars, runnerVars, storeVars,
                    mainVars, dataset, embedded, todo, w_pend, historyVars >>

\* the worker process dies during its call, its connection with it;
\* while the stage runs, Ray restarts the worker and hands its batch out
\* again
WriterCrash(w) ==
    /\ w_pc[w] \in {"insert", "committed"}
    /\ crashes < MaxCrashes
    /\ crashes' = crashes + 1
    /\ CutShort(w)
    /\ w_conn' = [w_conn EXCEPT ![w] = "none"]
    /\ todo' = IF WriterStageRunning THEN todo \cup {w_batch[w]} ELSE todo
    /\ UNCHANGED << chunkerVars, instanceVars, runnerVars, storeVars,
                    mainVars, dataset, embedded, done, commits, surfaced,
                    raised >>

\* the counts a run that completes has printed: "Loaded {ds.count()}
\* README files" and "Created {ds.count()} text chunks"; the completion
\* message names the table and no count
SummaryCounts == {"documents", "chunks"}

\* main(): ds.take_all() returns, "Processing complete" is printed
MainComplete ==
    /\ pc = "pipeline"
    /\ raised = {}
    /\ done = 1..NumBatches(dataset)
    /\ pc' = "complete"
    /\ UNCHANGED << chunkerVars, instanceVars, runnerVars, storeVars, runs,
                    corpus, init_policy, missing, model_dim, init_txn,
                    tbl_before, stageVars, writerVars, historyVars >>

\* main(): ds.count() or ds.take_all() raises the error of a call of a
\* stage
MainPipelineFailed ==
    /\ pc \in {"execute", "pipeline"}
    /\ raised /= {}
    /\ pc' = "fatal"
    /\ UNCHANGED << chunkerVars, instanceVars, runnerVars, storeVars, runs,
                    corpus, init_policy, missing, model_dim, init_txn,
                    tbl_before, stageVars, writerVars, historyVars >>

\* the run is cancelled while its stages run (the operator aborts it:
\* KeyboardInterrupt is raised in ds.count() or ds.take_all(), which no
\* statement of main() catches): main() ends with the traceback, and the
\* executor of the dataset hands out nothing more
MainCancel ==
    /\ pc \in {"execute", "pipeline"}
    /\ pc' = "cancelled"
    /\ UNCHANGED << chunkerVars, instanceVars, runnerVars, storeVars, runs,
                    corpus, init_policy, missing, model_dim, init_txn,
                    tbl_before, stageVars, writerVars, historyVars >>

\* the worker is stopped with the cancelled run while its call is under
\* way: its connection goes with it, and the server rolls back the
\* transaction that was open
WriterKilled(w) ==
    /\ pc = "cancelled"
    /\ w_pc[w] /= "idle"
    /\ CutShort(w)
    /\ w_conn' = [w_conn EXCEPT ![w] = "none"]
    /\ UNCHANGED << chunkerVars, instanceVars, runnerVars, storeVars,
                    mainVars, stageVars, commits, surfaced, raised,
                    crashes >>

\* the pipeline is run again once the run before has ended and its workers
\* are gone, their connections with them
MainRerun ==
    /\ pc \in {"complete", "fatal", "cancelled"}
    /\ runs < MaxRuns
    /\ \A w \in Writers : w_pc[w] = "idle"
    /\ runs' = runs + 1
    /\ pc' = "start"
    /\ dataset' = << >> /\ embedded' = 0 /\ todo' = {} /\ done' = {}
    /\ commits' = << >> /\ interrupted' = {} /\ surfaced' = {}
    /\ raised' = {}
    /\ w_conn' = [w \in Writers |-> "none"]
    /\ w_pend' = [w \in Writers |-> {}]
    /\ UNCHANGED << chunkerVars, instanceVars, runnerVars, storeVars, corpus,
                    init_policy, missing, model_dim, init_txn, tbl_before,
                    w_pc, w_batch, w_i, crashes >>

Next ==
    \/ MainStart
    \/ MainConfigMissing
    \/ InitConnect
    \/ InitDropTable
    \/ InitCreateExtension
    \/ InitCreateTable
    \/ InitCreateEmbeddingIndex
    \/ InitCreateIdIndex
    \/ InitCommit
    \/ InitFail
    \/ MainGetUrls
    \/ MainGetUrlsFail
    \/ MainExecute
    \/ ChunkerRaises
    \/ EmbedderReturn
    \/ EmbedderRaises
    \/ \E w \in Writers :
          \/ WriterConnect(w)
          \/ WriterConnectFail(w)
          \/ WriterInsert(w)
          \/ WriterLost(w)
          \/ WriterCommit(w)
          \/ WriterReturn(w)
          \/ WriterCrash(w)
          \/ WriterKilled(w)
    \/ MainComplete
    \/ MainPipelineFailed
    \/ MainCancel
    \/ MainRerun

Spec == Init /\ [][Next]_vars

-----------------------------------------------------------------------------
(* Claims about the writer stage and initialize_table of process.py,       *)
(* checked under Spec.                                                     *)

BothIndexes == {EmbeddingIdx, IdIdx}

\* the rows of batch b that a reader of the table sees
Visible(b) == Ids(BatchRows(b)) \cap Ids(tbl.rows)

\* C1: PGVectorWriter.__call__ is atomic per batch.  Whatever the point at
\* which a call is cut short or raises, a reader of the table sees all the
\* rows of a batch or none of them; a batch is committed at most once, its
\* commit comes after its last insert, no row is visible while the
\* transaction that inserted it is open, and a batch whose call returned
\* was committed exactly once and is visible as a whole.
C1_BatchAtomicCommittedOnce ==
    /\ \A b \in 1..NumBatches(dataset) :
          /\ Visible(b) \in {{}, Ids(BatchRows(b))}
          /\ commits[b] <= 1
          /\ commits[b] = 0 => Visible(b) = {}
          /\ b \in done => commits[b] = 1 /\ Visible(b) = Ids(BatchRows(b))
    /\ \A w \in Writers :
          /\ w_pc[w] = "committed" =>
                w_i[w] = BatchLen(w) /\ commits[w_batch[w]] = 1
          /\ Ids(w_pend[w]) \cap Ids(tbl.rows) = {}

\* C1, witness: a call was cut short after k of its n inserts, 0 < k < n,
\* none of its rows is visible, and another batch is committed as a whole
C1_Witness ==
    \E x \in interrupted :
       /\ 0 < x.k /\ x.k < x.n
       /\ Visible(x.batch) = {}
       /\ \E b \in done : b /= x.batch /\ Visible(b) = Ids(BatchRows(b))

\* C2: the Writer is idempotent under re-delivery.  A batch delivered again
\* after its rows were committed is written with upsert semantics: the
\* call succeeds, no insert of the writer stage fails on the primary key.
C2_RedeliveryUpserts == "UniqueViolation" \notin raised

\* C3: table initialization is a barrier.  While a writer call is under
\* way, the transaction of initialize_table is over and the table and
\* both its indexes are committed; no insert of a writer ever finds the
\* table missing.
C3_InitIsBarrier ==
    /\ "UndefinedTable" \notin raised
    /\ \A w \in Writers :
          w_pc[w] /= "idle" =>
             /\ init_txn = NoTxn
             /\ tbl.exists
             /\ tbl.indexes = BothIndexes

\* C3, witness: in the first run, which found no table, a writer has
\* executed an insert
C3_Witness ==
    /\ runs = 1
    /\ \E w \in Writers : w_pc[w] = "insert" /\ w_i[w] > 0

SoundConfig == missing = "none" /\ model_dim = VECTOR_DIM

\* C13: a failure of Embedder.__call__ to encode a batch never aborts the
\* run: the batch is encoded again chunk by chunk, the chunks that still
\* fail are dropped and counted, and the run goes on.
C13_EncodeFailureNeverAborts ==
    (SoundConfig /\ "EncodeError" \in raised) => pc /= "fatal"

\* C14: when the Embedder returns vectors of a length other than the
\* declared 384, the run is aborted before a writer opens a connection or
\* issues an insert: no write attempt precedes the detection.
C14_MismatchRaisedBeforeWrite ==
    (missing = "none" /\ model_dim /= VECTOR_DIM) =>
        /\ \A w \in Writers : w_conn[w] = "none" /\ w_pc[w] = "idle"
        /\ interrupted = {}

\* C15: an exception raised inside Chunker.__call__ for one document is
\* isolated: the run does not abort.
C15_ChunkingFailureIsolated ==
    (SoundConfig /\ "ChunkerError" \in raised) => pc /= "fatal"

\* C16: when a required configuration value is missing (a database
\* setting, the destination table name, the DVC repo, the storage
\* endpoint), the run aborts before any statement is sent to the store: no
\* statement of initialize_table is executed.
C16_MissingConfigAbortsBeforeStatements ==
    missing /= "none" => pc \in {"start", "init_connect", "init_drop", "fatal"}

\* C19: a connection loss while a batch is written surfaces from the call
\* only after the writer has reconnected and tried the batch a second
\* time.
C19_LossSurfacesAfterRetry ==
    SoundConfig => \A x \in surfaced : x.attempt = 2

\* the workers whose instance owns an open connection
OpenConnections == {w \in Writers : w_conn[w] /= "none"}

\* the workers with a call in flight
InFlight == {w \in Writers : w_pc[w] /= "idle"}

AllBatchRows == UNION {BatchRows(b) : b \in 1..NumBatches(dataset)}

\* C22: the final contents of the table do not depend on the order and
\* the interleaving in which the writer batches run and commit.  The
\* batches of a run have pairwise distinct chunk_ids, so unless a batch is
\* delivered twice no insert fails on the key or on the table; while the
\* writer stage runs no step removes a committed row; and however the
\* transactions interleave, the run that completes holds exactly the rows
\* of all its batches.
C22_OrderIndependent ==
    /\ [](SoundConfig /\ crashes = 0 =>
            /\ raised \cap {"UniqueViolation", "UndefinedTable"} = {}
            /\ pc = "complete" => tbl.rows = AllBatchRows)
    /\ [][pc = "pipeline" /\ pc' = "pipeline" =>
            tbl.rows \subseteq tbl'.rows]_vars

\* C22 witness: the second batch is committed and its call has returned
\* while the transaction of the first batch, begun by the other writer,
\* is still open.
C22_Witness ==
    /\ SoundConfig /\ crashes = 0 /\ raised = {}
    /\ 2 \in done /\ Visible(2) = Ids(BatchRows(2))
    /\ \E w \in Writers : w_batch[w] = 1 /\ w_pend[w] /= {}

\* C23: a run ends with a final summary or with a fatal error, and the
\* summary of a run that completes reports the documents processed, the
\* chunks produced, the chunks embedded and written and the chunks
\* dropped.  (That a run ended by a fatal error prints no completion
\* message needs no check: the message is the statement after
\* ds.take_all(), which MainComplete alone reaches.)
C23_SummaryOrFatal ==
    pc = "complete" =>
       {"documents", "chunks", "written", "dropped"} \subseteq SummaryCounts

\* C26: a run that aborts by a fatal error before any chunk has been
\* written (get_readme_urls raises or returns no url) leaves the rows
\* the table held before the run unchanged.
C26_EarlyAbortKeepsPriorRows ==
    [][(pc = "get_urls" /\ pc' = "fatal") =>
          tbl'.rows = tbl_before.rows]_vars

\* the rows of the table that carry the chunk: its chunk_id as id, its
\* text as content, its doc_id, chunk_index and source_file as metadata
RowsOfChunk(chunk) ==
    {r \in tbl.rows :
        /\ r.id = chunk.chunk_id
        /\ r.content = Str(chunk.text)
        /\ r.metadata.doc_id = chunk.doc_id
        /\ r.metadata.chunk_index = chunk.chunk_index
        /\ r.metadata.source_file = chunk.source_file}

C28_CollisionRaisesAndAddsNothing ==
    /\ [](\A w \in Writers : Ids(w_pend[w]) \cap Ids(tbl.rows) = {})
    /\ [][("UniqueViolation" \notin raised /\ "UniqueViolation" \in raised')
            => /\ tbl' = tbl
               /\ \E w \in Writers :
                     /\ w_pc[w] = "insert" /\ w_pc'[w] = "idle"
                     /\ w_pend'[w] = {}]_vars

\* C28 witness: a call has raised UniqueViolation on a batch whose rows
\* were committed before, and those rows are all in the table.
C28_Witness ==
    /\ "UniqueViolation" \in raised
    /\ \E x \in interrupted :
          /\ commits[x.batch] = 1
          /\ x.k = 0
          /\ Visible(x.batch) = Ids(BatchRows(x.batch))

-----------------------------------------------------------------------------
(* Two runs of process.py against the same destination table.  Of the      *)
(* second run only initialize_table is followed: its statements run in one *)
(* transaction, whose effect the first run sees at the commit.             *)

\* initialize_table of another run, from its connect to its commit.  DROP
\* TABLE takes the exclusive lock of the table, which it gets once no
\* open transaction has inserted into the table or changed it; the commit
\* installs the new, empty table with its two indexes
OtherRunInitializeTable ==
    /\ init_txn = NoTxn
    /\ \A w \in Writers : w_pend[w] = {}
    /\ tbl' = CreateIndex(CreateIndex(CreateTable(DropTableIfExists(tbl)),
                                      EmbeddingIdx), IdIdx)
    /\ ext_vector' = TRUE
    /\ UNCHANGED << chunkerVars, instanceVars, runnerVars, serial, mainVars,
                    stageVars, writerVars, historyVars >>

NextTwoRuns == Next \/ OtherRunInitializeTable

SpecTwoRuns == Init /\ [][NextTwoRuns]_vars

\* C25: with two runs executing concurrently against the same table, the
\* initialize_table of one never removes rows the writers of the other
\* have committed and never makes their batches fail: while a run whose
\* configuration is sound is under way or has completed, every batch
\* whose call returned is in the table as a whole, and no insert has
\* found the table missing.
C25_ConcurrentInitKeepsRows ==
    (SoundConfig /\ crashes = 0 /\ pc \in {"pipeline", "complete"}) =>
        /\ \A b \in done : Visible(b) = Ids(BatchRows(b))
        /\ "UndefinedTable" \notin raised

-----------------------------------------------------------------------------
(* The earlier revision, process copy.py: initialize_table creates what    *)
(* is missing and drops nothing, the Chunker splits by size only, the      *)
(* table numbers its rows itself (id SERIAL), and a PGVectorWriter         *)
(* instance keeps one connection for all its batches.                      *)

\* Chunker.__call__ of process copy.py
CopyChunkerCall(r, ctr, S, O) ==
    LET texts == SizeSplit(r.text, S, O)
    IN  [k \in 1..Len(texts) |->
            [text |-> texts[k],
             source_repo |-> RepoName(r.path),
             source_file |-> PathName(r.path),
             chunk_index |-> k - 1,
             doc_id |-> NewDocId(ctr),
             chunk_id |-> NewChunkId(ctr, k - 1)]]

RECURSIVE CopyFlatMapChunker(_, _, _, _)
CopyFlatMapChunker(rows, ctr, S, O) ==
    IF rows = << >> THEN << >>
    ELSE LET out == CopyChunkerCall(Head(rows), ctr, S, O)
         IN  out \o CopyFlatMapChunker(Tail(rows), ctr + 1 + Len(out), S, O)

CopyDraws(rows, S, O) == Len(rows) + Len(CopyFlatMapChunker(rows, 0, S, O))

\* the row the INSERT of process copy.py adds for one chunk; id is the
\* value the sequence of the table gives it
CopyRowOf(chunk, id) ==
    [id |-> id,
     chunk_text |-> Str(chunk.text),
     source_repo |-> chunk.source_repo,
     source_file |-> chunk.source_file,
     chunk_index |-> chunk.chunk_index,
     doc_id |-> chunk.doc_id,
     chunk_id |-> chunk.chunk_id]

\* mutant: the table is created anew whether it exists or not
CopyCreateTableAnew(t) == CreateTable(t)

\* CREATE TABLE IF NOT EXISTS {table_name} (id SERIAL PRIMARY KEY, ...)
CopyCreateTable(t) == CreateTableIfNotExists(t)

\* initialize_table of process copy.py as a function of the table it finds
CopyInitializeTable(t) ==
    CreateIndexIfNotExists(CopyCreateTable(t), EmbeddingIdx)

\* the parameters come from params.yaml, which the repository does not
\* hold: chunk_size and chunk_overlap are any values of the bounded
\* configurations
InitCopy ==
    /\ chunk_size \in 1..MaxChunkSize
    /\ chunk_overlap \in 0..(chunk_size - 1)
    /\ row = NoRow /\ chunks = << >> /\ emitted = {} /\ calls = 0
    /\ uuid_ctr = 0
    /\ tbl = NoTable /\ ext_vector = FALSE /\ serial = 0
    /\ pc = "start" /\ runs = 1
    /\ corpus \in Corpora
    /\ init_policy = "create_if_not_exists"
    /\ missing = "none" /\ model_dim = VECTOR_DIM
    /\ init_txn = NoTxn /\ tbl_before = NoTable
    /\ dataset = << >> /\ embedded = 0 /\ todo = {} /\ done = {}
    /\ w_pc = [w \in Writers |-> "idle"]
    /\ w_batch = [w \in Writers |-> 0]
    /\ w_i = [w \in Writers |-> 0]
    /\ w_pend = [w \in Writers |-> {}]
    /\ w_conn = [w \in Writers |-> "none"]
    /\ commits = << >> /\ interrupted = {} /\ raised = {} /\ crashes = 0
    /\ surfaced = {}
    /\ InstanceIdle
    /\ RunnerIdle

\* initialize_table: psycopg.connect(connection_string)
CopyInitConnect ==
    /\ pc = "init_connect"
    /\ init_txn' = [open |-> TRUE, tbl |-> tbl, ext |-> ext_vector]
    /\ tbl_before' = tbl
    /\ pc' = "init_ext"
    /\ UNCHANGED << chunkerVars, instanceVars, runnerVars, storeVars, runs,
                    corpus, init_policy, missing, model_dim, stageVars,
                    writerVars, historyVars >>

\* initialize_table: CREATE TABLE IF NOT EXISTS {table_name} (...)
CopyInitCreateTable ==
    /\ pc = "init_table"
    /\ init_txn' = [init_txn EXCEPT !.tbl = CopyCreateTable(@)]
    /\ pc' = "init_idx_emb"
    /\ UNCHANGED << chunkerVars, instanceVars, runnerVars, storeVars, runs,
                    corpus, init_policy, missing, model_dim, tbl_before,
                    stageVars, writerVars, historyVars >>

\* initialize_table: CREATE INDEX IF NOT EXISTS {table_name}_embedding_idx
\* ... USING hnsw (embedding vector_cosine_ops)
CopyInitCreateEmbeddingIndex ==
    /\ pc = "init_idx_emb"
    /\ init_txn' =
          [init_txn EXCEPT !.tbl = CreateIndexIfNotExists(@, EmbeddingIdx)]
    /\ pc' = "init_commit"
    /\ UNCHANGED << chunkerVars, instanceVars, runnerVars, storeVars, runs,
                    corpus, init_policy, missing, model_dim, tbl_before,
                    stageVars, writerVars, historyVars >>

\* main(): the dataset is built; ds.count() executes the Chunker stage
\* once, ds.take_all() executes it again and feeds the writer stage
CopyMainExecute ==
    /\ pc = "execute"
    /\ LET d == CopyDraws(corpus, chunk_size, chunk_overlap)
       IN  /\ dataset' = CopyFlatMapChunker(corpus, uuid_ctr + d, chunk_size,
                                            chunk_overlap)
           /\ uuid_ctr' = uuid_ctr + d + d
    /\ embedded' = Len(dataset')
    /\ todo' = 1..NumBatches(dataset')
    /\ done' = {}
    /\ commits' = [b \in 1..NumBatches(dataset') |-> 0]
    /\ pc' = "pipeline"
    /\ UNCHANGED << instanceVars, runnerVars, chunk_size, chunk_overlap, row,
                    chunks, emitted, calls, storeVars, runs, corpus,
                    init_policy, missing, model_dim, init_txn, tbl_before,
                    writerVars, interrupted, surfaced, raised, crashes >>

\* a batch is handed to an idle worker; _init_connection connects if the
\* instance holds no connection, and keeps the one it holds otherwise
CopyWriterConnect(w) ==
    /\ WriterStageRunning
    /\ w_pc[w] = "idle"
    /\ \E b \in todo :
          /\ todo' = todo \ {b}
          /\ w_batch' = [w_batch EXCEPT ![w] = b]
    /\ w_conn' = [w_conn EXCEPT ![w] = IF @ = "none" THEN "idle" ELSE @]
    /\ w_i' = [w_i EXCEPT ![w] = 0]
    /\ w_pc' = [w_pc EXCEPT ![w] = "insert"]
    /\ UNCHANGED << chunkerVars, instanceVars, runnerVars, storeVars,
                    mainVars, dataset, embedded, done, w_pend, historyVars >>

\* a batch is handed to a worker without connection: psycopg.connect raises
CopyWriterConnectFail(w) ==
    /\ WriterStageRunning
    /\ w_pc[w] = "idle"
    /\ w_conn[w] = "none"
    /\ \E b \in todo :
          /\ todo' = todo \ {b}
          /\ interrupted' = interrupted \cup
                {[batch |-> b, k |-> 0, n |-> Len(Batch(dataset, b))]}
    /\ raised' = raised \cup {"OperationalError"}
    /\ UNCHANGED << chunkerVars, instanceVars, runnerVars, storeVars,
                    mainVars, dataset, embedded, done, writerVars, commits,
                    surfaced, crashes >>

\* the next INSERT of the loop, on the connection the instance holds.  It
\* raises on a connection that is closed or whose transaction has failed,
\* and it raises UndefinedTable, failing the transaction, if the table
\* does not exist; the call ends there, the connection is kept as it is.
CopyWriterInsert(w) ==
    /\ w_pc[w] = "insert"
    /\ w_i[w] < BatchLen(w)
    /\ IF w_conn[w] \in {"broken", "inerror"}
       THEN /\ raised' = raised \cup
                   {IF w_conn[w] = "broken" THEN "OperationalError"
                    ELSE "InFailedSqlTransaction"}
            /\ CutShort(w)
            /\ UNCHANGED << serial, w_conn >>
       ELSE IF ~tbl.exists
       THEN /\ raised' = raised \cup {"UndefinedTable"}
            /\ CutShort(w)
            /\ w_conn' = [w_conn EXCEPT ![w] = "inerror"]
            /\ UNCHANGED serial
       ELSE /\ serial' = serial + 1
            /\ w_pend' = [w_pend EXCEPT ![w] = @ \cup
                  {CopyRowOf(Batch(dataset, w_batch[w])[w_i[w] + 1],
                             serial + 1)}]
            /\ w_i' = [w_i EXCEPT ![w] = @ + 1]
            /\ w_conn' = [w_conn EXCEPT ![w] = "intrans"]
            /\ UNCHANGED << w_pc, w_batch, interrupted, surfaced, raised >>
    /\ UNCHANGED << chunkerVars, instanceVars, runnerVars, tbl, ext_vector,
                    mainVars, stageVars, commits, surfaced, crashes >>

\* the connection is lost while the loop runs: the statement raises, the
\* server rolls the transaction back, the instance keeps the dead
\* connection
CopyWriterLost(w) ==
    /\ w_pc[w] = "insert"
    /\ raised' = raised \cup {"OperationalError"}
    /\ CutShort(w)
    /\ w_conn' = [w_conn EXCEPT ![w] = "broken"]
    /\ UNCHANGED << chunkerVars, instanceVars, runnerVars, storeVars,
                    mainVars, stageVars, commits, surfaced, crashes >>

\* an execute of the loop raises before the statement is sent: psycopg
\* cannot adapt a parameter of the row (DataError for a text that holds a
\* NUL character).  The cursor is closed as its with block is left; the
\* connection is kept, with its transaction open and the rows inserted
\* so far in it, and nothing rolls it back
CopyWriterRaises(w) ==
    /\ w_pc[w] = "insert"
    /\ w_i[w] < BatchLen(w)
    /\ w_conn[w] \in {"idle", "intrans"}
    /\ raised' = raised \cup {"DataError"}
    /\ interrupted' = interrupted \cup
          {[batch |-> w_batch[w], k |-> w_i[w], n |-> BatchLen(w)]}
    /\ w_pc' = [w_pc EXCEPT ![w] = "idle"]
    /\ w_batch' = [w_batch EXCEPT ![w] = 0]
    /\ w_i' = [w_i EXCEPT ![w] = 0]
    /\ UNCHANGED << chunkerVars, instanceVars, runnerVars, storeVars,
                    mainVars, stageVars, w_pend, w_conn, commits, surfaced,
                    crashes >>

\* self._conn.commit() after the loop: every row the transaction of the
\* connection holds becomes visible
CopyWriterCommit(w) ==
    /\ w_pc[w] = "insert"
    /\ w_i[w] = BatchLen(w)
    /\ tbl' = [tbl EXCEPT !.rows = CommitRows(@, w_pend[w])]
    /\ w_pend' = [w_pend EXCEPT ![w] = {}]
    /\ w_conn' = [w_conn EXCEPT ![w] = "idle"]
    /\ commits' = [commits EXCEPT ![w_batch[w]] = @ + 1]
    /\ w_pc' = [w_pc EXCEPT ![w] = "committed"]
    /\ UNCHANGED << chunkerVars, instanceVars, runnerVars, ext_vector,
                    serial, mainVars, stageVars, w_batch, w_i, interrupted,
                    surfaced, raised, crashes >>

\* the cursor is closed, return {}; the connection stays open
CopyWriterReturn(w) ==
    /\ w_pc[w] = "committed"
    /\ done' = done \cup {w_batch[w]}
    /\ w_pc' = [w_pc EXCEPT ![w] = "idle"]
    /\ w_batch' = [w_batch EXCEPT ![w] = 0]
    /\ w_i' = [w_i EXCEPT ![w] = 0]
    /\ UNCHANGED << chunkerVars, instanceVars, runnerVars, storeVars,
                    mainVars, dataset, embedded, todo, w_pend, w_conn,
                    historyVars >>

\* the worker process dies during its call, its connection with it; while
\* the stage runs, Ray restarts the worker with a new instance and hands
\* its batch out again
CopyWriterCrash(w) ==
    /\ w_pc[w] \in {"insert", "committed"}
    /\ crashes < MaxCrashes
    /\ crashes' = crashes + 1
    /\ CutShort(w)
    /\ w_conn' = [w_conn EXCEPT ![w] = "none"]
    /\ todo' = IF WriterStageRunning THEN todo \cup {w_batch[w]} ELSE todo
    /\ UNCHANGED << chunkerVars, instanceVars, runnerVars, storeVars,
                    mainVars, dataset, embedded, done, commits, surfaced,
                    raised >>

NextCopy ==
    \/ MainStart
    \/ CopyInitConnect
    \/ InitCreateExtension
    \/ CopyInitCreateTable
    \/ CopyInitCreateEmbeddingIndex
    \/ InitCommit
    \/ InitFail
    \/ MainGetUrls
    \/ MainGetUrlsFail
    \/ CopyMainExecute
    \/ \E w \in Writers :
          \/ CopyWriterConnect(w)
          \/ CopyWriterConnectFail(w)
          \/ CopyWriterInsert(w)
          \/ CopyWriterLost(w)
          \/ CopyWriterRaises(w)
          \/ CopyWriterCommit(w)
          \/ CopyWriterReturn(w)
          \/ CopyWriterCrash(w)
    \/ MainComplete
    \/ MainPipelineFailed
    \/ MainRerun

SpecCopy == InitCopy /\ [][NextCopy]_vars

-----------------------------------------------------------------------------
(* Claims about initialize_table of process copy.py, checked under         *)
(* SpecCopy.                                                               *)

\* C5: under "create if not exists", initialize_table is idempotent and
\* frame-preserving.  Right after it commits, the table is what the
\* function makes of the table it found, every row present before the call
\* is present and unchanged, and a call on a table that a call has already
\* initialized changes nothing: applying the function twice gives the
\* table and index state that applying it once gives.
C5_InitIdempotentFramePreserving ==
    /\ CopyInitializeTable(CopyInitializeTable(tbl)) = CopyInitializeTable(tbl)
    /\ pc = "get_urls" =>
          /\ tbl = CopyInitializeTable(tbl_before)
          /\ tbl.exists /\ EmbeddingIdx \in tbl.indexes
          /\ tbl.rows = tbl_before.rows
          /\ tbl_before = CopyInitializeTable(tbl_before) => tbl = tbl_before

\* C5, witness: initialize_table has just committed on a table that an
\* earlier call initialized and that holds rows
C5_Witness ==
    /\ pc = "get_urls"
    /\ tbl_before.rows /= {}
    /\ tbl_before = CopyInitializeTable(tbl_before)
    /\ tbl = tbl_before


\* the rows of the table that come from the chunks of batch b of the run
CopyVisible(b) ==
    {r \in tbl.rows :
        \E k \in 1..Len(Batch(dataset, b)) :
           r.chunk_id = Batch(dataset, b)[k].chunk_id}

\* C29: in process copy.py, where a writer keeps one connection for all
\* its batches, rows inserted by a call that raised before its commit are
\* never made visible by the commit of a later call of the same writer:
\* the table holds no row of a batch none of whose calls reached its
\* commit.
C29_FailedBatchNeverVisible ==
    \A b \in DOMAIN commits : commits[b] = 0 => CopyVisible(b) = {}

\* the rows of the table for position chunk_index of file source_file
RowsAt(source_file, chunk_index) ==
    {r \in tbl.rows :
        r.source_file = source_file /\ r.chunk_index = chunk_index}

\* C30: in process copy.py, running the whole pipeline twice on the same
\* corpus leaves the logical contents of running it once: when the second
\* run has completed (no worker having crashed), there is exactly one row
\* for every (source_file, chunk_index) of the corpus.
C30_SecondRunAddsNoRow ==
    (runs = 2 /\ pc = "complete" /\ crashes = 0) =>
        \A k \in 1..Len(dataset) :
           Cardinality(RowsAt(dataset[k].source_file,
                              dataset[k].chunk_index)) = 1

-----------------------------------------------------------------------------
(* One PGVectorWriter object: its construction, its serialization          *)
(* (__getstate__, __setstate__), _get_connection of process.py and the     *)
(* way __call__ of either revision comes by its connection.  A connection  *)
(* is the index of its status in conns; 0 stands for None.                 *)

\* the connections a behaviour may open
MaxConns == 3

\* the arguments of __init__: four in process copy.py, six in process.py
ConfigFields(rev) ==
    IF rev = "copy"
    THEN {"connection_string", "table_name", "data_version", "embedding_model"}
    ELSE {"connection_string", "table_name", "data_version", "embedding_model",
          "docker_image", "argo_workflow_uid"}

\* the values the arguments are drawn from
FieldValues(k) ==
    CASE k = "connection_string" ->
             {"postgresql://u:p@h:5432/d", "postgresql://u:p@g:5432/d"}
      [] k = "table_name" -> {"readme_embeddings", "None"}
      [] k = "data_version" -> {"v1.0.0"}
      [] k = "embedding_model" -> {"all-MiniLM-L6-v2"}
      [] k = "docker_image" -> {"None", "registry/image:1"}
      [] k = "argo_workflow_uid" -> {"None"}

CtorArgs(rev) ==
    {a \in [ConfigFields(rev) -> UNION {FieldValues(k) : k \in ConfigFields(rev)}] :
        \A k \in ConfigFields(rev) : a[k] \in FieldValues(k)}

\* dict.update, and the assignment of one key
DictUpdate(d, e) ==
    [k \in DOMAIN d \cup DOMAIN e |-> IF k \in DOMAIN e THEN e[k] ELSE d[k]]

DictSet(d, key, v) ==
    [k \in DOMAIN d \cup {key} |-> IF k = key THEN v ELSE d[k]]

\* PGVectorWriter.__init__: the arguments are kept, self._conn = None
WriterInit(args) == DictSet(args, "_conn", 0)

\* mutant: the state is the __dict__ as it is, the connection included
GetStateWithConn(d) == d

\* __getstate__: a copy of the __dict__ without the key _conn
GetState(d) == [k \in DOMAIN d \ {"_conn"} |-> d[k]]

\* __setstate__ on the object pickle creates, whose __dict__ is empty:
\* self.__dict__.update(state), self._conn = None
SetState(state) == DictSet(DictUpdate(<< >>, state), "_conn", 0)

\* mutant: the exception of close() leaves _get_connection
CloseErrorSurfaces(err) == err

\* try: self._conn.close() / except Exception: pass
CloseErrorPassed(err) == "none"

InitWriter ==
    /\ chunk_size = EMBEDDING_CHUNK_SIZE
    /\ chunk_overlap = EMBEDDING_CHUNK_OVERLAP
    /\ row = NoRow /\ chunks = << >> /\ emitted = {} /\ calls = 0
    /\ uuid_ctr = 0
    /\ PipelineIdle
    /\ revision \in {"process", "copy"}
    /\ ctor_args \in CtorArgs(revision)
    /\ self_dict = WriterInit(ctor_args)
    /\ pickled = NoState
    /\ conns = << >> /\ restored = FALSE /\ batches_since = 0
    /\ outcome = NoOutcome
    /\ RunnerIdle

\* pickle.dumps(writer): __getstate__ is called
WriterGetState ==
    /\ pickled' = GetState(self_dict)
    /\ outcome' = Outcome("getstate", "none", 0, "none")
    /\ UNCHANGED << chunkerVars, pipelineVars, runnerVars, revision,
                    ctor_args, self_dict, conns, restored, batches_since >>

\* pickle.loads: __setstate__ is called on a new object with the state
\* taken before; the object at hand is the restored one from here on
WriterSetState ==
    /\ pickled /= NoState
    /\ self_dict' = SetState(pickled)
    /\ restored' = TRUE
    /\ batches_since' = 0
    /\ outcome' = Outcome("setstate", "none", 0, "none")
    /\ UNCHANGED << chunkerVars, pipelineVars, runnerVars, revision,
                    ctor_args, pickled, conns >>

\* the server or the network drops an open connection
ConnectionDies ==
    /\ \E c \in 1..Len(conns) :
          /\ conns[c] = "open"
          /\ conns' = [conns EXCEPT ![c] = "dead"]
    /\ UNCHANGED << chunkerVars, pipelineVars, runnerVars, revision,
                    ctor_args, self_dict, pickled, restored, batches_since,
                    outcome >>

\* _get_connection of process.py.  A held connection is probed with
\* SELECT 1 and returned if it answers; if the probe raises, the
\* connection is closed, whatever close() raises is passed over, and
\* _conn is None; then, as when none was held, psycopg.connect either
\* gives the new connection, which is kept and returned, or raises
GetConnection ==
    /\ revision = "process"
    /\ LET held == self_dict["_conn"]
           result(err, conn, passed) ==
               Outcome("get_connection", err, conn, passed)
       IN  IF held /= 0 /\ conns[held] = "open"
           THEN /\ outcome' = result("none", held, "none")
                /\ UNCHANGED << self_dict, conns >>
           ELSE \E close_err \in {"none", "close"}, up \in BOOLEAN :
                  LET closed == IF held /= 0
                                THEN [conns EXCEPT ![held] = "closed"]
                                ELSE conns
                      err == IF held /= 0 THEN CloseErrorPassed(close_err)
                             ELSE "none"
                  IN  /\ held = 0 => close_err = "none"
                      /\ IF err /= "none"
                         THEN /\ conns' = closed
                              /\ UNCHANGED self_dict
                              /\ outcome' = result(err, 0, "none")
                         ELSE IF up /\ Len(conns) < MaxConns
                         THEN /\ conns' = Append(closed, "open")
                              /\ self_dict' = DictSet(self_dict, "_conn",
                                                      Len(conns) + 1)
                              /\ outcome' = result("none", Len(conns) + 1,
                                                   close_err)
                         ELSE /\ conns' = closed
                              /\ self_dict' = DictSet(self_dict, "_conn", 0)
                              /\ outcome' = result("connect", 0, close_err)
    /\ UNCHANGED << chunkerVars, pipelineVars, runnerVars, revision,
                    ctor_args, pickled, restored, batches_since >>

\* __call__ of process.py on a batch: psycopg.connect gives the call a
\* connection of its own, closed as the with block is left, or raises;
\* self._conn is neither read nor written
WriterCall ==
    /\ revision = "process"
    /\ \E up \in BOOLEAN :
          IF up /\ Len(conns) < MaxConns
          THEN /\ conns' = Append(conns, "closed")
               /\ outcome' = Outcome("call", "none", Len(conns) + 1, "none")
          ELSE /\ UNCHANGED conns
               /\ outcome' = Outcome("call", "connect", 0, "none")
    /\ batches_since' = 1
    /\ UNCHANGED << chunkerVars, pipelineVars, runnerVars, revision,
                    ctor_args, self_dict, pickled, restored >>

\* __call__ of process copy.py on a batch: _init_connection connects if
\* self._conn is None and keeps the connection; the inserts and the commit
\* run on self._conn and raise if it is dead
CopyWriterCall ==
    /\ revision = "copy"
    /\ LET held == self_dict["_conn"]
       IN  IF held /= 0
           THEN /\ outcome' =
                      Outcome("call",
                              IF conns[held] = "open" THEN "none"
                              ELSE "execute",
                              held, "none")
                /\ UNCHANGED << self_dict, conns >>
           ELSE \E up \in BOOLEAN :
                  IF up /\ Len(conns) < MaxConns
                  THEN /\ conns' = Append(conns, "open")
                       /\ self_dict' = DictSet(self_dict, "_conn",
                                               Len(conns) + 1)
                       /\ outcome' = Outcome("call", "none", Len(conns) + 1,
                                             "none")
                  ELSE /\ UNCHANGED << self_dict, conns >>
                       /\ outcome' = Outcome("call", "connect", 0, "none")
    /\ batches_since' = 1
    /\ UNCHANGED << chunkerVars, pipelineVars, runnerVars, revision,
                    ctor_args, pickled, restored >>

NextWriter ==
    \/ WriterGetState
    \/ WriterSetState
    \/ ConnectionDies
    \/ GetConnection
    \/ WriterCall
    \/ CopyWriterCall

SpecWriter == InitWriter /\ [][NextWriter]_vars

-----------------------------------------------------------------------------
(* Claims about one PGVectorWriter object, checked under SpecWriter.       *)

\* the object holds every argument it was constructed with, and a snapshot
\* holds them and nothing else
ConfigPreserved ==
    /\ \A k \in ConfigFields(revision) :
          k \in DOMAIN self_dict /\ self_dict[k] = ctor_args[k]
    /\ pickled /= NoState =>
          /\ DOMAIN pickled = ConfigFields(revision)
          /\ \A k \in ConfigFields(revision) : pickled[k] = ctor_args[k]

\* __setstate__ leaves the object without connection and opens none
RestoreOpensNothing ==
    WriterSetState => self_dict'["_conn"] = 0 /\ conns' = conns

\* the first call of a restored object that succeeds runs on a connection
\* opened by that call
FirstBatchConnects ==
    (restored /\ batches_since = 0 /\ batches_since' = 1
        /\ outcome'.err = "none")
    => /\ Len(conns') = Len(conns) + 1
       /\ outcome'.conn = Len(conns')

\* C17: __getstate__ followed by __setstate__ keeps every configuration
\* field as it was, the snapshot never holds the connection, the restored
\* writer has no connection (_conn is None), and it comes by its
\* connection only at its first batch after the restore.
C17_SerializationKeepsConfigDropsConnection ==
    /\ [](ConfigPreserved /\ "_conn" \notin DOMAIN pickled)
    /\ [][RestoreOpensNothing /\ FirstBatchConnects]_vars

\* C17 witness: an object whose connection was open when its state was
\* taken has been restored, and the restored object has written its first
\* batch on a new connection.
C17_Witness ==
    /\ restored /\ batches_since = 1
    /\ outcome.op = "call" /\ outcome.err = "none"
    /\ Len(conns) >= 2 /\ conns[1] = "open"

\* C18 as stated: _get_connection always returns a responsive connection
\* and no error reaches its caller.
C18_NoErrorSurfaces ==
    [][GetConnection =>
          /\ outcome'.err = "none"
          /\ outcome'.conn /= 0 /\ conns'[outcome'.conn] = "open"]_vars

\* what holds as _get_connection returns or raises
GetConnectionPost ==
    /\ outcome'.err \in {"none", "connect"}
    /\ outcome'.err = "none" =>
          /\ outcome'.conn /= 0 /\ conns'[outcome'.conn] = "open"
          /\ self_dict'["_conn"] = outcome'.conn
    /\ outcome'.err = "connect" => self_dict'["_conn"] = 0
    /\ \A c \in 1..Len(conns) :
          (self_dict["_conn"] = c /\ conns[c] = "dead")
              => conns'[c] = "closed" /\ self_dict'["_conn"] /= c

\* C18 amended: _get_connection probes the connection it holds; a
\* connection whose probe fails is closed and given up, and neither the
\* failure of the probe nor that of close() reaches the caller; the
\* connection returned is responsive and is the one held from then on.
\* The one error that reaches the caller is that of psycopg.connect when
\* the new connection cannot be made.  __call__ of process.py never runs
\* on a held connection.
C18_ProbeAndCloseErrorsPassed ==
    /\ [][GetConnection => GetConnectionPost]_vars
    /\ [][WriterCall => (outcome'.conn = 0
                          \/ outcome'.conn /= self_dict'["_conn"])]_vars

\* C18 witness: the held connection was dead, close() raised on it, and
\* another, responsive connection was returned in its place without error.
C18_Witness ==
    /\ outcome.op = "get_connection" /\ outcome.err = "none"
    /\ outcome.passed = "close"
    /\ \E c \in 1..Len(conns) : conns[c] = "closed" /\ c < outcome.conn
    /\ conns[outcome.conn] = "open"


-----------------------------------------------------------------------------
(* run_pipeline.py: main() writes the overrides of the environment into    *)
(* params.py, hashes dvc.lock, runs "dvc repro", hashes dvc.lock again     *)
(* and prints one marker for the workflow that called it.                  *)

\* the contents dvc.lock may have are 1..MaxLock
MaxLock == 3
\* the digests file_hash may return are fewer than the contents
NumDigests == 2

\* dvc.lock: absent, or a file with contents
LockFiles == {None} \cup {Some(c) : c \in 1..MaxLock}

\* hashlib.md5(f.read()).hexdigest(): a digest of the contents, the same
\* for equal contents and, the digests being fewer, for some unequal ones
Md5(content) == content % NumDigests

\* file_hash(path): None if the file does not exist, else the digest
FileHash(file) == IF file = None THEN None ELSE Some(Md5(file[1]))

\* result.returncode of subprocess.run: the exit code of dvc, or -N if dvc
\* was killed by signal N
ReturnCodes == {0, 1, 255, -9}

\* sys.exit(code): the exit status of the process is the low byte of code
ExitStatus(code) == code % 256

\* mutant: a lock file that appears or disappears does not count
ChangedIfBothExist(before, after) ==
    before /= None /\ after /= None /\ before /= after

\* changed = hash_before != hash_after
Changed(before, after) == before /= after

\* str(changed).lower()
Marker(changed) == IF changed THEN "true" ELSE "false"

\* a run of run_pipeline.py: the environment overrides parameters or not,
\* and dvc.lock is absent (a new pipeline) or has any contents
InitRunner ==
    /\ chunk_size = EMBEDDING_CHUNK_SIZE
    /\ chunk_overlap = EMBEDDING_CHUNK_OVERLAP
    /\ row = NoRow /\ chunks = << >> /\ emitted = {} /\ calls = 0
    /\ uuid_ctr = 0
    /\ PipelineIdle
    /\ InstanceIdle
    /\ rp_pc = "start"
    /\ updates \in BOOLEAN
    /\ params_file = "committed"
    /\ lock_file \in LockFiles
    /\ hash_before = None
    /\ returncode = None
    /\ markers = << >>
    /\ exit_status = None

\* main(): get_env_updates() returns, and update_params_file is called if
\* updates is not empty
RunnerUpdateParams ==
    /\ rp_pc = "start"
    /\ params_file' = IF updates THEN "updated" ELSE params_file
    /\ rp_pc' = "hash"
    /\ UNCHANGED << chunkerVars, pipelineVars, instanceVars, updates,
                    lock_file, hash_before, returncode, markers,
                    exit_status >>

\* main(): hash_before = file_hash(lock_file)
RunnerHashBefore ==
    /\ rp_pc = "hash"
    /\ hash_before' = FileHash(lock_file)
    /\ rp_pc' = "dvc"
    /\ UNCHANGED << chunkerVars, pipelineVars, instanceVars, updates,
                    params_file, lock_file, returncode, markers,
                    exit_status >>

\* main(): subprocess.run(cmd, cwd=...) returns; dvc has left dvc.lock as
\* it was, rewritten it, created it or removed it
RunnerDvcRepro ==
    /\ rp_pc = "dvc"
    /\ returncode' \in {Some(rc) : rc \in ReturnCodes}
    /\ lock_file' \in LockFiles
    /\ rp_pc' = "report"
    /\ UNCHANGED << chunkerVars, pipelineVars, instanceVars, updates,
                    params_file, hash_before, markers, exit_status >>

\* main() from "if result.returncode != 0" to its sys.exit
RunnerReport ==
    /\ rp_pc = "report"
    /\ IF returncode[1] /= 0
       THEN /\ markers' = Append(markers, "error")
            /\ exit_status' = Some(ExitStatus(returncode[1]))
       ELSE /\ markers' =
                 Append(markers,
                        Marker(Changed(hash_before, FileHash(lock_file))))
            /\ exit_status' = Some(ExitStatus(0))
    /\ rp_pc' = "exited"
    /\ UNCHANGED << chunkerVars, pipelineVars, instanceVars, updates,
                    params_file, lock_file, hash_before, returncode >>

\* main() is left by an exception nothing catches: int(value) or
\* float(value) of an override raises ValueError, params.py cannot be read
\* or written, or subprocess.run cannot start dvc; the interpreter prints
\* the traceback and exits with status 1
RunnerRaises ==
    /\ rp_pc \in {"start", "dvc"}
    /\ exit_status' = Some(1)
    /\ rp_pc' = "exited"
    /\ UNCHANGED << chunkerVars, pipelineVars, instanceVars, updates,
                    params_file, lock_file, hash_before, returncode,
                    markers >>

NextRunner ==
    \/ RunnerUpdateParams
    \/ RunnerHashBefore
    \/ RunnerDvcRepro
    \/ RunnerReport
    \/ RunnerRaises

SpecRunner == InitRunner /\ [][NextRunner]_vars

-----------------------------------------------------------------------------
(* Claims about run_pipeline.main, checked under SpecRunner.               *)

\* the 'before' hash is taken after params.py is updated and before dvc
\* runs, and is not taken again
HashBeforeInOrder ==
    /\ [](rp_pc = "dvc" =>
            /\ hash_before = FileHash(lock_file)
            /\ updates => params_file = "updated")
    /\ [][(rp_pc \in {"dvc", "report"}) => hash_before' = hash_before]_vars

\* what a run whose dvc succeeded prints and returns
SuccessReported ==
    returncode = Some(0) =>
       /\ exit_status = Some(0)
       /\ markers[1] \in {"true", "false"}
       /\ markers[1] = "true" <=> FileHash(lock_file) /= hash_before

\* C24 as stated: every run emits exactly one marker: "error", with the
\* DVC return code as exit status, when dvc repro fails; else "true" if
\* and only if the hash of dvc.lock after the run differs from the hash
\* before it, "false" otherwise, with exit status 0; the 'before' hash is
\* taken after params.py is updated and before DVC runs.
C24_OneMarkerPerRun ==
    /\ [](rp_pc = "exited" =>
            /\ Len(markers) = 1
            /\ returncode \notin {None, Some(0)} =>
                  markers[1] = "error" /\ exit_status = returncode
            /\ SuccessReported)
    /\ [](rp_pc /= "exited" => markers = << >>)
    /\ HashBeforeInOrder

\* C24, amended: a run in which dvc repro was started and returned emits
\* exactly one marker, and a run that main() leaves by an exception before
\* that emits none and exits with status 1; the exit status of the
\* "error" marker is the low byte of the return code, nonzero.
C24_OneMarkerOnceDvcReturned ==
    /\ [](rp_pc = "exited" =>
            IF returncode = None
            THEN markers = << >> /\ exit_status = Some(1)
            ELSE /\ Len(markers) = 1
                 /\ returncode /= Some(0) =>
                       /\ markers[1] = "error"
                       /\ exit_status = Some(returncode[1] % 256)
                       /\ exit_status /= Some(0)
                 /\ SuccessReported)
    /\ [](rp_pc /= "exited" => markers = << >>)
    /\ HashBeforeInOrder

\* C24 witness: dvc repro succeeded and created a lock file where there
\* was none, and the run has printed "true" and exited with status 0
C24_Witness ==
    /\ rp_pc = "exited"
    /\ returncode = Some(0) /\ hash_before = None /\ lock_file /= None
    /\ markers = << "true" >> /\ exit_status = Some(0)

=============================================================================
